---- MODULE Spec2Model ----
(***************************************************************************)
(* The user-transaction pipeline of AptosVM (aptos_vm.rs) and the          *)
(* RespawnedSession it runs its epilogues in (respawned_session.rs), as a   *)
(* state machine: one action per pipeline function, the Move runtime, the   *)
(* gas meter and the change-set library being black boxes whose outcomes    *)
(* (success, error code, writes, events, gas charged) are inputs.  One      *)
(* behaviour is one run of execute_user_transaction on one transaction.     *)
(***************************************************************************)
EXTENDS Integers, Sequences, FiniteSets, TLC

(* ------------------------------ bounds -------------------------------- *)
\* max_gas_amount of the transaction
MaxGas == 1
\* the largest refund process_storage_fee_for_all returns
MaxRefund == 1
\* one metered operation charges 0..MaxCharge gas units
MaxCharge == 2
\* a published bundle holds 0..MaxBundle modules
MaxBundle == 2
\* a session emits at most MaxEvents events
MaxEvents == 1
\* a block has at most MaxBlock transactions
MaxBlock == 3
\* a transaction output carries at most MaxOutputEvents events
MaxOutputEvents == 2
\* gas unit prices range over 0..MaxGasPrice
MaxGasPrice == 2
\* num_cpus::get() of the machine
NumCpus == 2

VARIABLES
    cfg,          \* the VM: is_simulation, features, gas feature version
    txn,          \* the signed transaction: payload, authenticator, max gas
    pc,           \* position of the pipeline
    balance,      \* gas_meter.balance()
    session,      \* change set accumulated by the current main session
    respawned,    \* the RespawnedSession, when one is open
    new_published_modules_loaded,
    loader_cache_invalid,  \* mark_loader_cache_as_invalid has been called
    init_queue,   \* modules execute_module_initialization has still to visit
    exists,       \* modules that existed before the bundle was published
    err,          \* the VMStatus travelling to the next step ("Executed": none)
    vm_status,    \* the VMStatus the pipeline returned
    output,       \* the VMOutput the pipeline returned
    hist          \* history of the run, for stating the properties

\* the overlay view of a respawned session, read on its own
VARIABLES
    view,         \* ExecutorViewWithChangeSet: its change set and its base views
    seen          \* the reads made on it so far: <<call, result>> pairs

pipeline_vars == <<cfg, txn, pc, balance, session, respawned, new_published_modules_loaded,
                   loader_cache_invalid, init_queue, exists, err, vm_status, output, hist>>
view_vars == <<view, seen>>

\* a call of execute_block
VARIABLES
    transactions, \* the block: the kind of each transaction
    outputs,      \* the TransactionOutputs produced so far
    restarts,     \* what should_restart_execution said of each output
    calls,        \* what execute_single_transaction called for each output, or
                  \* for the transaction that ended the block with an error
    ret           \* "none", "running", "Ok", "Err"

block_vars == <<transactions, outputs, restarts, calls, ret>>

\* a call of validate_transaction
VARIABLES
    request,      \* the transaction submitted and the flags the validation reads
    validator_result, \* the VMValidatorResult
    stage_1       \* what stage 1 of the execution pipeline made of the same transaction

validate_vars == <<request, validator_result, stage_1>>

\* the write-once configuration of the process
VARIABLES
    cells,        \* the OnceCell statics: empty, or holding a value
    threads,      \* the setter each thread is in
    got,          \* what the last getter call returned
    contended     \* the knob the threads of this run call the setter of

knob_vars == <<cells, threads, got, contended>>

\* the execution proxy of consensus, between a block and its two listeners
VARIABLES
    consensus_block,  \* the consensus block: validator and user transactions
    blocks_received,  \* the transaction lists the block executor was handed
    invocations       \* the transaction lists state sync was notified with

consensus_vars == <<consensus_block, blocks_received, invocations>>

\* a call of validate_publish_request
VARIABLES
    publish_request,  \* the bundle, expected_modules and allowed_deps of the request
    publish_result    \* what validate_publish_request returned, and to what

publish_vars == <<publish_request, publish_result>>

\* the delayed-field reads of an overlay view
VARIABLES
    delayed_view,     \* ExecutorViewWithChangeSet: delayed_field_change_set and the base view
    resolving,        \* the call of get_delayed_field_value in flight: its frames
    resolved          \* the calls that returned: <<call, result>> pairs

delayed_vars == <<delayed_view, resolving, resolved>>

\* one run of BatchRequester::request_batch
VARIABLES
    request_state,    \* BatchRequesterState, with the arguments request_batch got
    futures,          \* the batch RPCs in flight, by peer
    issued,           \* the peer lists next_request_peers returned, with where each began
    ret_tx,           \* what was sent on the oneshot channel
    request_batch_ret \* where request_batch is, and what it returned

batch_vars == <<request_state, futures, issued, ret_tx, request_batch_ret>>

vars == <<pipeline_vars, view_vars, block_vars, validate_vars, knob_vars, consensus_vars,
          publish_vars, delayed_vars, batch_vars>>

\* what a run of the pipeline leaves alone
outside_pipeline == <<view_vars, block_vars, validate_vars, knob_vars, consensus_vars, publish_vars, delayed_vars, batch_vars>>
\* what a read on the overlay view leaves alone
outside_view == <<pipeline_vars, block_vars, validate_vars, knob_vars, consensus_vars, publish_vars, delayed_vars, batch_vars>>
\* what execute_block leaves alone
outside_block == <<pipeline_vars, view_vars, validate_vars, knob_vars, consensus_vars, publish_vars, delayed_vars, batch_vars>>
\* what validate_transaction leaves alone
outside_validate == <<pipeline_vars, view_vars, block_vars, knob_vars, consensus_vars, publish_vars, delayed_vars, batch_vars>>
\* what the setters and getters of the configuration leave alone
outside_knobs == <<pipeline_vars, view_vars, block_vars, validate_vars, consensus_vars, publish_vars, delayed_vars, batch_vars>>
\* what validate_publish_request leaves alone
outside_publish == <<pipeline_vars, view_vars, block_vars, validate_vars, knob_vars, consensus_vars, delayed_vars, batch_vars>>
\* what a delayed-field read on the overlay view leaves alone
outside_delayed == <<pipeline_vars, view_vars, block_vars, validate_vars, knob_vars,
                     consensus_vars, publish_vars, batch_vars>>
\* what request_batch leaves alone
outside_batch == <<pipeline_vars, view_vars, block_vars, validate_vars, knob_vars,
                   consensus_vars, publish_vars, delayed_vars>>
\* what the execution proxy leaves alone
outside_consensus == <<pipeline_vars, view_vars, block_vars, validate_vars, knob_vars, publish_vars, delayed_vars, batch_vars>>

(* ------------------------------ universe ------------------------------ *)
\* resource state keys and module names the sessions may write
Keys == {"r1"}
ModNames == {"M", "N"}
\* who wrote an op or emitted an event (stands for the written bytes)
\* "main": a Move call of the main session (prologue carried over, account
\* creation, payload fetch, payload, init_module); "publish": the bundle
Origins == {"main", "publish", "cleanup", "epilogue", "failure_epilogue"}
\* "EntryFunction" stands for both payloads of execute_script_or_entry_function
Payloads == {"EntryFunction", "Multisig", "ModuleBundle"}
GasFeatureVersions == {0, 12}

NoWrite == [kind |-> "None", by |-> "none"]
WriteOp(kind, by) == [kind |-> kind, by |-> by]
WriteKinds == {"Creation", "Modification"}

\* VMChangeSet: resource writes, module writes and the ordered events
EmptyChangeSet ==
    [res |-> [k \in Keys |-> NoWrite],
     mods |-> [m \in ModNames |-> NoWrite],
     events |-> <<>>]

\* the writes one Move call made by `by` can leave in its session
WriteChoices(by) == [Keys -> {NoWrite} \cup {WriteOp(k, by) : k \in WriteKinds}]
EventChoices(by, cs) == IF Len(cs.events) < MaxEvents THEN {<<>>, <<by>>} ELSE {<<>>}

\* a session after one more Move call wrote w and emitted ev
SessionAfter(cs, w, ev) ==
    [cs EXCEPT !.res = [k \in Keys |-> IF w[k] = NoWrite THEN cs.res[k] ELSE w[k]],
               !.events = cs.events \o ev]

(* ------------------------------ statuses ------------------------------ *)
ValidationCodes == {"INVALID_SIGNATURE", "SIGNERS_CONTAIN_DUPLICATES",
                    "FEATURE_UNDER_GATING", "SEQUENCE_NUMBER_TOO_OLD",
                    "VM_STARTUP_FAILURE"}
InvariantViolationCodes == {"UNKNOWN_INVARIANT_VIOLATION_ERROR", "UNREACHABLE",
                            "STORAGE_ERROR"}
VerificationCodes == {"CONSTRAINT_NOT_SATISFIED", "CODE_DESERIALIZATION_ERROR",
                      "DUPLICATE_MODULE_NAME", "BACKWARD_INCOMPATIBLE_MODULE_UPDATE"}
\* errors a Move call can end with, apart from running out of gas
MoveErrors == {"MOVE_ABORT", "UNKNOWN_INVARIANT_VIOLATION_ERROR"}

Keep(st) == [tag |-> "Keep", st |-> st]
Discard(code) == [tag |-> "Discard", st |-> code]

\* TransactionStatus::from_vm_status(vm_status, charge_invariant_violation)
from_vm_status(code, charge_invariant_violation) ==
    CASE code = "Executed" -> Keep("Success")
      [] code = "OUT_OF_GAS" -> Keep("OutOfGas")
      [] code = "MOVE_ABORT" -> Keep("MoveAbort")
      [] code \in {"EXECUTION_FAILURE", "MISSING_DATA"} -> Keep("ExecutionFailure")
      [] code \in VerificationCodes -> Keep("MiscellaneousError")
      [] code \in InvariantViolationCodes ->
            IF charge_invariant_violation THEN Keep("MiscellaneousError")
            ELSE Discard(code)
      [] OTHER -> Discard(code)

ZeroFeeStatement == [gas_used |-> 0, storage_fee_refund |-> 0]

\* VMOutput::empty_with_status
empty_with_status(status) ==
    [status |-> status, change_set |-> EmptyChangeSet, fee_statement |-> ZeroFeeStatement]

\* the mutation: gas_used taken from the meter before anything was charged
fee_statement_from_gas_meter_stale(max_gas_amount, gas_balance, storage_fee_refund) ==
    [gas_used |-> 0, storage_fee_refund |-> storage_fee_refund]

\* AptosVM::fee_statement_from_gas_meter; the checked_sub panics on underflow,
\* modelled as the value -1 that no fee statement may carry
fee_statement_from_gas_meter(max_gas_amount, gas_balance, storage_fee_refund) ==
    [gas_used |-> IF gas_balance <= max_gas_amount
                  THEN max_gas_amount - gas_balance ELSE -1,
     storage_fee_refund |-> storage_fee_refund]

\* the mutation: the discarded output keeps the writes attempted so far and
\* the gas charged for them
discard_error_vm_status_keeps_state(code) ==
    [vm_status |-> code,
     output |-> [status |-> Discard(code), change_set |-> session,
                 fee_statement |-> fee_statement_from_gas_meter(MaxGas, balance, 0)]]

\* discard_error_vm_status: (vm_status, empty output with Discard(code))
discard_error_vm_status(code) ==
    [vm_status |-> code, output |-> empty_with_status(Discard(code))]

\* one charge on the gas meter: the balance left, or 0 and OUT_OF_GAS
Charge(gas_balance, c) ==
    IF c <= gas_balance THEN [ok |-> TRUE, balance |-> gas_balance - c]
    ELSE [ok |-> FALSE, balance |-> 0]

(* --------------------------- change-set library ------------------------ *)
\* VMChangeSet::has_creation
has_creation(cs) ==
    \/ \E k \in Keys : cs.res[k].kind = "Creation"
    \/ \E m \in ModNames : cs.mods[m].kind = "Creation"

\* VMChangeSet::squash_additional_change_set: the later write prevails per
\* key, the events are concatenated
squash_additional_change_set(prev, add) ==
    [res |-> [k \in Keys |-> IF add.res[k] = NoWrite THEN prev.res[k] ELSE add.res[k]],
     mods |-> [m \in ModNames |-> IF add.mods[m] = NoWrite THEN prev.mods[m] ELSE add.mods[m]],
     events |-> prev.events \o add.events]


(* ------------------------------ the runtime ---------------------------- *)
\* outcomes of one Move call: its final status, the writes and events it
\* left in its session (a failing call leaves partial ones) and the gas it
\* asked for; an unmetered call (UnmeteredGasMeter) asks for none
MoveCall(by, metered, cs) ==
    [status : {"Executed"} \cup MoveErrors,
     w : WriteChoices(by),
     ev : EventChoices(by, cs),
     c : IF metered THEN 0..MaxCharge ELSE {0}]

\* the status a metered call ends with on a meter holding gas_balance
CallStatus(o, gas_balance) ==
    IF Charge(gas_balance, o.c).ok THEN o.status ELSE "OUT_OF_GAS"

NoOutput == [status |-> [tag |-> "None", st |-> "none"],
             change_set |-> EmptyChangeSet, fee_statement |-> ZeroFeeStatement]

NoRespawned == [open |-> FALSE, previous |-> EmptyChangeSet,
                session |-> EmptyChangeSet, storage_refund |-> 0]

\* RespawnedSession::spawn: a fresh session over previous_session_change_set
spawn(previous_session_change_set, storage_refund) ==
    [open |-> TRUE, previous |-> previous_session_change_set,
     session |-> EmptyChangeSet, storage_refund |-> storage_refund]

\* RespawnedSession::execute: the Move call runs in the respawned session
execute(rs, o) == [rs EXCEPT !.session = SessionAfter(rs.session, o.w, o.ev)]

\* the mutation: finish squashes without looking for creations
finish_without_creation_check(rs, session_finish, squash_ok) ==
    IF session_finish # "Executed" THEN [status |-> session_finish, change_set |-> EmptyChangeSet]
    ELSE IF ~squash_ok
    THEN [status |-> "UNKNOWN_INVARIANT_VIOLATION_ERROR", change_set |-> EmptyChangeSet]
    ELSE [status |-> "Executed",
          change_set |-> squash_additional_change_set(rs.previous, rs.session)]

\* the mutation: a creation is reported as a failure of the execution
finish_creation_as_execution_failure(rs, session_finish, squash_ok) ==
    IF session_finish # "Executed" THEN [status |-> session_finish, change_set |-> EmptyChangeSet]
    ELSE IF has_creation(rs.session)
    THEN [status |-> "EXECUTION_FAILURE", change_set |-> EmptyChangeSet]
    ELSE IF ~squash_ok
    THEN [status |-> "UNKNOWN_INVARIANT_VIOLATION_ERROR", change_set |-> EmptyChangeSet]
    ELSE [status |-> "Executed",
          change_set |-> squash_additional_change_set(rs.previous, rs.session)]

\* the mutation: the operands of the squash are swapped
finish_squash_reversed(rs, session_finish, squash_ok) ==
    IF session_finish # "Executed" THEN [status |-> session_finish, change_set |-> EmptyChangeSet]
    ELSE IF has_creation(rs.session) \/ ~squash_ok
    THEN [status |-> "UNKNOWN_INVARIANT_VIOLATION_ERROR", change_set |-> EmptyChangeSet]
    ELSE [status |-> "Executed",
          change_set |-> squash_additional_change_set(rs.session, rs.previous)]

\* RespawnedSession::finish: session_finish is the result of finishing the
\* inner session, squash_ok that of the squash
finish(rs, session_finish, squash_ok) ==
    IF ~rs.open
    THEN [status |-> "UNKNOWN_INVARIANT_VIOLATION_ERROR", change_set |-> EmptyChangeSet]
    ELSE IF session_finish # "Executed"
    THEN [status |-> session_finish, change_set |-> EmptyChangeSet]
    ELSE IF has_creation(rs.session)
    THEN [status |-> "UNKNOWN_INVARIANT_VIOLATION_ERROR", change_set |-> EmptyChangeSet]
    ELSE IF ~squash_ok
    THEN [status |-> "UNKNOWN_INVARIANT_VIOLATION_ERROR", change_set |-> EmptyChangeSet]
    ELSE [status |-> "Executed",
          change_set |-> squash_additional_change_set(rs.previous, rs.session)]


(* ------------------------------- Init ---------------------------------- *)
\* the configurations of the VM
Configs ==
    [is_simulation : BOOLEAN,
     charge_invariant_violation : BOOLEAN,
     sponsored_automatic_account_creation : BOOLEAN,
     module_bundle_disallowed : BOOLEAN,
     gas_feature_version : GasFeatureVersions,
     storage_deletion_refund : {FALSE}]

\* the transactions the pipeline is run on; storage_refund is what
\* process_storage_fee_for_all returns for the writes of the transaction
Transactions ==
    [payload : Payloads, fee_payer : BOOLEAN, max_gas_amount : {MaxGas},
     storage_refund : {0}]

\* the configurations and transactions the storage refund is studied on:
\* the refund and STORAGE_DELETION_REFUND vary, the gates that end a run
\* before any charge are open
RefundConfigs ==
    [is_simulation : BOOLEAN,
     charge_invariant_violation : {TRUE},
     sponsored_automatic_account_creation : BOOLEAN,
     module_bundle_disallowed : {FALSE},
     gas_feature_version : {12},
     storage_deletion_refund : BOOLEAN]
RefundTransactions ==
    [payload : Payloads, fee_payer : {TRUE}, max_gas_amount : {MaxGas},
     storage_refund : 0..MaxRefund]

\* no overlay view is under study
NoView == [kind |-> "none"]

\* execute_block has not been called
NoBlock ==
    /\ transactions = <<>>
    /\ outputs = <<>>
    /\ restarts = <<>>
    /\ calls = <<>>
    /\ ret = "none"

NoRequest ==
    [authenticator |-> "Ed25519", signature_ok |-> TRUE, duplicate_signers |-> FALSE,
     payload |-> "EntryFunction", gas_unit_price |-> 0,
     single_sender_authenticator |-> TRUE, module_bundle_disallowed |-> TRUE]

\* VMValidatorResult::new(status, score); `signed` is what
\* validate_signed_transaction returned ("not run" when it was not called)
VMValidatorResult(status, score, signed) ==
    [done |-> TRUE, status |-> status, score |-> score, signed |-> signed]

\* VMValidatorResult::error(code), returned before the prologue is run
VMValidatorResult_error(code) == VMValidatorResult(<<code>>, 0, "not run")

NoValidation == [done |-> FALSE, status |-> <<>>, score |-> 0, signed |-> "not run"]

\* stage 1 of execute_user_transaction_impl has not been run
NoStage1 == [done |-> FALSE, status |-> <<>>, signed |-> "not run"]

\* validate_transaction has not been called
NoValidate ==
    /\ request = NoRequest
    /\ validator_result = NoValidation
    /\ stage_1 = NoStage1

Knobs == {"EXECUTION_CONCURRENCY_LEVEL", "NUM_EXECUTION_SHARD",
          "NUM_PROOF_READING_THREADS", "PARANOID_TYPE_CHECKS",
          "PROCESSED_TRANSACTIONS_DETAILED_COUNTERS", "TIMED_FEATURE_OVERRIDE"}
Threads == {"t1", "t2"}
IdleThread == [pc |-> "idle", knob |-> "none", value |-> <<>>]
NoGet == [knob |-> "none", value |-> <<>>, tick |-> 0]

\* no cell is set, no thread is in a setter, no getter was called
NoKnobs ==
    /\ cells = [k \in Knobs |-> <<>>]
    /\ threads = [t \in Threads |-> IdleThread]
    /\ got = NoGet
    /\ contended = "none"

\* no consensus block is at hand, no listener has heard anything
NoBlockData == [validator_txns |-> <<>>, user_txns |-> <<>>, user_status |-> "none"]
NoConsensus ==
    /\ consensus_block = NoBlockData
    /\ blocks_received = <<>>
    /\ invocations = <<>>

\* no publish request is being validated
NoPublishRequest == [modules |-> <<>>, expected_modules |-> {}, allowed_deps |-> <<>>]
NoPublishResult == [done |-> FALSE, status |-> "none", validators |-> "none"]
NoPublish ==
    /\ publish_request = NoPublishRequest
    /\ publish_result = NoPublishResult

\* no delayed-field read is being made
NoDelayedView == [change_set |-> <<>>, base |-> <<>>]
NoCall == [state |-> "idle", stack |-> <<>>]
NoDelayed ==
    /\ delayed_view = NoDelayedView
    /\ resolving = NoCall
    /\ resolved = {}

\* no batch is being requested
NoRequestState ==
    [signers |-> <<>>, next_index |-> 0, num_retries |-> 0, retry_limit |-> 0,
     request_num_peers |-> 0]
NoReturn == [state |-> "idle", value |-> <<>>]
NoBatch ==
    /\ request_state = NoRequestState
    /\ futures = <<>>
    /\ issued = <<>>
    /\ ret_tx = <<>>
    /\ request_batch_ret = NoReturn

NoHistory ==
    [prologue_passed |-> FALSE,   \* validate_signed_transaction returned Ok
     oog_at |-> "none",           \* the stage that first ran out of gas
     inner |-> "none",            \* the status the multisig inner payload ended with
     charged |-> FALSE,           \* charge_change_set_and_respawn_session returned Ok
     cleanup_calls |-> <<>>,      \* the multisig cleanup functions called
     cleanup_ok |-> FALSE,        \* the multisig cleanup returned Ok
     balance_before_cleanup |-> <<>>, \* the balance of the gas meter when it was called
     epilogue_ok |-> FALSE,       \* the success epilogue returned Ok
     finish |-> "none",           \* RespawnedSession::finish: "Executed", "creation", "squash", "error"
     validation_failed |-> FALSE, \* validate_publish_request returned Err
     publish_called |-> FALSE,    \* publish_module_bundle_with_compat_config ran
     init_ran |-> FALSE,          \* an init_module was executed
     init_calls |-> <<>>,         \* the init_module calls made: module and signer
     init_verify_failed |-> FALSE, \* verify_module_init_function returned Err
     failure_join |-> FALSE,      \* on_user_transaction_execution_failure ran
     join_err |-> "none",         \* the error it was called with
     account_creation |-> "none", \* create_account_if_does_not_exist: "ok", "failed"
     intrinsic_charges |-> 0,     \* calls of charge_intrinsic_gas_for_transaction
     metered_before_intrinsic |-> "none", \* the metered stage that ran before them
     success_check |-> "none",    \* check_consistency of the success cleanup: "ok", "failed"
     failure_check |-> "none",    \* check_consistency of the failure cleanup: "ok", "failed"
     failure_epilogue |-> "none"] \* "ok", "failed", "no_output"

Init ==
    /\ txn \in Transactions
    /\ cfg \in Configs
    /\ pc = "start"
    /\ balance = txn.max_gas_amount
    /\ session = EmptyChangeSet
    /\ respawned = NoRespawned
    /\ new_published_modules_loaded = FALSE
    /\ loader_cache_invalid = FALSE
    /\ init_queue = <<>>
    /\ exists = {}
    /\ err = "Executed"
    /\ vm_status = "none"
    /\ output = NoOutput
    /\ hist = NoHistory
    /\ view = NoView
    /\ seen = {}
    /\ NoBlock
    /\ NoValidate
    /\ NoKnobs
    /\ NoConsensus
    /\ NoPublish
    /\ NoDelayed
    /\ NoBatch

\* the sessions and the publish request go out of scope
DropLocals ==
    /\ session' = EmptyChangeSet
    /\ respawned' = NoRespawned
    /\ init_queue' = <<>>
    /\ exists' = {}

\* the pipeline returns (vm_status, output)
Return(r) ==
    /\ vm_status' = r.vm_status
    /\ output' = r.output
    /\ err' = "Executed"
    /\ pc' = "done"
    /\ DropLocals

\* the pipeline goes on at p, carrying the status e
Goto(p, e) ==
    /\ pc' = p
    /\ err' = e
    /\ UNCHANGED <<vm_status, output>>

\* a payload function returns Err(status): its session is dropped and
\* execute_user_transaction_impl goes to on_user_transaction_execution_failure
Fail(status) ==
    /\ Goto("failure", status)
    /\ DropLocals

\* execute_multisig_transaction keeps the result of the inner payload
Cleaned == txn.payload = "Multisig" /\ ~cfg.is_simulation

\* the payload (and its publish) has succeeded
PayloadOk == Goto(IF Cleaned THEN "multisig_cleanup" ELSE "charge", "Executed")

\* the payload (or its publish) has failed with `status`, leaving cs in the session
PayloadFailed(status, cs) ==
    IF Cleaned
    THEN /\ Goto("multisig_cleanup", status)
         /\ session' = cs
         /\ init_queue' = <<>>
         /\ exists' = {}
         /\ UNCHANGED respawned
    ELSE Fail(status)

NoteOog(h, status, stage) ==
    IF status = "OUT_OF_GAS" /\ h.oog_at = "none" THEN [h EXCEPT !.oog_at = stage] ELSE h

\* charge_intrinsic_gas_for_transaction has been called
NoteIntrinsic(h) == [h EXCEPT !.intrinsic_charges = @ + 1]

\* a Move call of `stage` has run on the gas meter
NoteMetered(h, stage) ==
    IF h.intrinsic_charges = 0 /\ h.metered_before_intrinsic = "none"
    THEN [h EXCEPT !.metered_before_intrinsic = stage] ELSE h

\* the inner payload of a multisig transaction has ended with `status`
NoteInner(h, status) ==
    IF Cleaned
    THEN [h EXCEPT !.inner = status]
    ELSE h

(* ---------------------------- the pipeline ----------------------------- *)
\* the mutation: the account is created whatever the authenticator
sponsored_account_creation_for_all(t, c) == c.sponsored_automatic_account_creation

\* execute_user_transaction_impl: the authenticator is FeePayer and
\* SPONSORED_AUTOMATIC_ACCOUNT_CREATION is enabled
sponsored_account_creation(t, c) ==
    t.fee_payer /\ c.sponsored_automatic_account_creation

\* execute_single_transaction and execute_user_transaction: a transaction whose
\* signature did not verify is discarded (a simulation does not verify it), and
\* so is one whose gas meter cannot be made
execute_user_transaction ==
    /\ pc = "start"
    /\ \E signature_valid \in BOOLEAN, gas_meter_made \in BOOLEAN :
        IF ~cfg.is_simulation /\ ~signature_valid
        THEN Return(discard_error_vm_status("INVALID_SIGNATURE"))
        ELSE IF ~gas_meter_made
        THEN Return(discard_error_vm_status("VM_STARTUP_FAILURE"))
        ELSE /\ Goto("prologue", "Executed")
             /\ UNCHANGED <<session, respawned, init_queue, exists>>
    /\ UNCHANGED <<outside_pipeline, cfg, txn, balance, new_published_modules_loaded,
                   loader_cache_invalid, hist>>

\* execute_user_transaction_impl, stage 1: validate_signed_transaction with
\* run_prologue_with_payload in a PrologueMeta session, then the session
\* refresh (TxnMeta) for gas_feature_version >= 1
validate_signed_transaction ==
    /\ pc = "prologue"
    /\ \E duplicate_signers \in BOOLEAN,
          prologue \in {"Executed", "SEQUENCE_NUMBER_TOO_OLD"},
          w \in WriteChoices("main") :
        LET status ==
                IF duplicate_signers THEN "SIGNERS_CONTAIN_DUPLICATES"
                ELSE IF txn.payload = "ModuleBundle" /\ cfg.module_bundle_disallowed
                THEN "FEATURE_UNDER_GATING"
                ELSE prologue
            prologue_session == SessionAfter(EmptyChangeSet, w, <<>>)
        IN  IF status # "Executed"
            THEN /\ Return(discard_error_vm_status(status))
                 /\ UNCHANGED hist
            ELSE /\ session' = IF cfg.gas_feature_version >= 1
                               THEN EmptyChangeSet ELSE prologue_session
                 /\ hist' = [hist EXCEPT !.prologue_passed = TRUE]
                 /\ Goto(IF sponsored_account_creation(txn, cfg)
                         THEN "create_account" ELSE "storage_gas_params", "Executed")
                 /\ UNCHANGED <<respawned, init_queue, exists>>
    /\ UNCHANGED <<outside_pipeline, cfg, txn, balance, new_published_modules_loaded, loader_cache_invalid>>

\* execute_user_transaction_impl, stage 3: account::create_account_if_does_not_exist
\* for a FeePayer transaction under SPONSORED_AUTOMATIC_ACCOUNT_CREATION
create_account_if_does_not_exist ==
    /\ pc = "create_account"
    /\ \E o \in MoveCall("main", TRUE, session) :
        LET status == CallStatus(o, balance) IN
        /\ balance' = Charge(balance, o.c).balance
        /\ hist' = NoteOog(NoteMetered(
                      [hist EXCEPT !.account_creation =
                                      IF status = "Executed" THEN "ok" ELSE "failed"],
                      "create_account"), status, "create_account")
        /\ IF status # "Executed"
           THEN Return(discard_error_vm_status(status))
           ELSE /\ session' = SessionAfter(session, o.w, o.ev)
                /\ Goto("storage_gas_params", "Executed")
                /\ UNCHANGED <<respawned, init_queue, exists>>
    /\ UNCHANGED <<outside_pipeline, cfg, txn, new_published_modules_loaded, loader_cache_invalid>>

\* execute_user_transaction_impl: unwrap_or_discard!(get_storage_gas_parameters)
get_storage_gas_parameters ==
    /\ pc = "storage_gas_params"
    /\ \E loaded \in BOOLEAN :
        IF loaded
        THEN /\ Goto("payload", "Executed")
             /\ UNCHANGED <<session, respawned, init_queue, exists>>
        ELSE Return(discard_error_vm_status("VM_STARTUP_FAILURE"))
    /\ UNCHANGED <<outside_pipeline, cfg, txn, balance, new_published_modules_loaded,
                   loader_cache_invalid, hist>>

\* execute_script_or_entry_function up to the payload's execution: intrinsic
\* gas, then load, argument validation and execute_script or
\* execute_entry_function (one Move call)
execute_script_or_entry_function ==
    /\ pc = "payload"
    /\ txn.payload = "EntryFunction"
    /\ \E intrinsic \in 0..MaxCharge :
        IF ~Charge(balance, intrinsic).ok
        THEN /\ balance' = 0
             /\ Fail("OUT_OF_GAS")
             /\ hist' = NoteOog(NoteIntrinsic(hist), "OUT_OF_GAS", "intrinsic")
        ELSE \E o \in MoveCall("main", TRUE, session) :
            LET after == Charge(balance, intrinsic).balance
                status == CallStatus(o, after) IN
            /\ balance' = Charge(after, o.c).balance
            /\ hist' = NoteOog(NoteIntrinsic(hist), status, "payload")
            /\ IF status # "Executed"
               THEN Fail(status)
               ELSE /\ session' = SessionAfter(session, o.w, o.ev)
                    /\ Goto("publish", "Executed")
                    /\ UNCHANGED <<respawned, init_queue, exists>>
    /\ UNCHANGED <<outside_pipeline, cfg, txn, new_published_modules_loaded, loader_cache_invalid>>

\* simulate_multisig_transaction up to the inner payload: no intrinsic gas,
\* no payload fetch; a Multisig without a payload is MISSING_DATA
simulate_multisig_transaction ==
    /\ pc = "payload"
    /\ txn.payload = "Multisig"
    /\ cfg.is_simulation
    /\ \E has_payload \in BOOLEAN :
        IF has_payload
        THEN /\ Goto("inner", "Executed")
             /\ UNCHANGED <<session, respawned, init_queue, exists>>
        ELSE Fail("MISSING_DATA")
    /\ UNCHANGED <<outside_pipeline, cfg, txn, balance, new_published_modules_loaded,
                   loader_cache_invalid, hist>>

\* execute_multisig_transaction, step 1: intrinsic gas, then
\* multisig_account::get_next_transaction_payload and the two
\* deserializations of what it returned
execute_multisig_transaction ==
    /\ pc = "payload"
    /\ txn.payload = "Multisig"
    /\ ~cfg.is_simulation
    /\ \E intrinsic \in 0..MaxCharge :
        IF ~Charge(balance, intrinsic).ok
        THEN /\ balance' = 0
             /\ Fail("OUT_OF_GAS")
             /\ hist' = NoteOog(NoteIntrinsic(hist), "OUT_OF_GAS", "intrinsic")
        ELSE \E o \in MoveCall("main", TRUE, session),
                returned \in {"payload", "nothing", "undecodable"} :
            LET after == Charge(balance, intrinsic).balance
                called == CallStatus(o, after)
                status == IF called # "Executed" THEN called
                          ELSE IF returned = "nothing"
                          THEN "UNKNOWN_INVARIANT_VIOLATION_ERROR"
                          ELSE IF returned = "undecodable"
                          THEN "FAILED_TO_DESERIALIZE_ARGUMENT"
                          ELSE "Executed" IN
            /\ balance' = Charge(after, o.c).balance
            /\ hist' = NoteOog(NoteIntrinsic(hist), called, "get_payload")
            /\ IF status # "Executed"
               THEN Fail(status)
               ELSE /\ session' = SessionAfter(session, o.w, o.ev)
                    /\ Goto("inner", "Executed")
                    /\ UNCHANGED <<respawned, init_queue, exists>>
    /\ UNCHANGED <<outside_pipeline, cfg, txn, new_published_modules_loaded, loader_cache_invalid>>

\* execute_multisig_entry_function: validate_and_execute_entry_function with
\* the multisig address as signer; resolve_pending_code_publish follows
execute_multisig_entry_function ==
    /\ pc = "inner"
    /\ \E o \in MoveCall("main", TRUE, session) :
        LET status == CallStatus(o, balance)
            cs == SessionAfter(session, o.w, o.ev) IN
        /\ balance' = Charge(balance, o.c).balance
        /\ IF status # "Executed"
           THEN /\ PayloadFailed(status, cs)
                /\ hist' = NoteInner(NoteOog(NoteMetered(hist, "inner"), status, "inner"), status)
           ELSE /\ session' = cs
                /\ hist' = NoteMetered(hist, "inner")
                /\ Goto("publish", "Executed")
                /\ UNCHANGED <<respawned, init_queue, exists>>
    /\ UNCHANGED <<outside_pipeline, cfg, txn, new_published_modules_loaded, loader_cache_invalid>>


(* ------------------------------ publishing ----------------------------- *)
Bundles == UNION {[1..n -> ModNames] : n \in 0..MaxBundle}
Range(f) == {f[i] : i \in DOMAIN f}

\* the loop of validate_publish_request over the modules: each module's name
\* is removed from expected_modules, a name not (or no longer) there fails
RECURSIVE validate_modules(_, _)
validate_modules(modules, expected_modules) ==
    IF modules = <<>> THEN [ok |-> TRUE, expected_modules |-> expected_modules]
    ELSE IF Head(modules) \notin expected_modules
    THEN [ok |-> FALSE, expected_modules |-> expected_modules]
    ELSE validate_modules(Tail(modules), expected_modules \ {Head(modules)})

\* validate_publish_request; `checks` is the result of the dependency,
\* metadata, resource-group and event validators
validate_publish_request(modules, expected_modules, checks) ==
    LET r == validate_modules(modules, expected_modules) IN
    IF ~r.ok THEN "CONSTRAINT_NOT_SATISFIED"
    ELSE IF checks # "Executed" THEN checks
    ELSE IF r.expected_modules # {} THEN "CONSTRAINT_NOT_SATISFIED"
    ELSE "Executed"

\* the mutation: the result of the validation is dropped
validation_passed_ignoring_result(validation) == TRUE

\* resolve_pending_code_publish: `?` on validate_publish_request
validation_passed(validation) == validation = "Executed"

\* the module writes publish_module_bundle_with_compat_config leaves in the session
publish_module_bundle(cs, bundle, existing) ==
    [cs EXCEPT !.mods = [m \in ModNames |->
        IF m \in Range(bundle)
        THEN WriteOp(IF m \in existing THEN "Modification" ELSE "Creation", "publish")
        ELSE cs.mods[m]]]

\* the bundle is in the session: execute_module_initialization follows, over
\* every module of the bundle
Published(cs, bundle, existing, h) ==
    /\ session' = cs
    /\ UNCHANGED respawned
    /\ IF bundle = <<>>
       THEN /\ PayloadOk
            /\ init_queue' = <<>>
            /\ exists' = {}
            /\ hist' = NoteInner(h, "Executed")
       ELSE /\ Goto("init", "Executed")
            /\ init_queue' = bundle
            /\ exists' = existing
            /\ hist' = h

\* resolve_pending_code_publish up to publish_module_bundle_with_compat_config
resolve_pending_code_publish ==
    /\ pc = "publish"
    /\ \/ \* no publish request in the session
          /\ PayloadOk
          /\ hist' = NoteInner(hist, "Executed")
          /\ UNCHANGED <<balance, session, respawned, init_queue, exists>>
       \/ \* deserialize_module_bundle fails
          /\ PayloadFailed("CODE_DESERIALIZATION_ERROR", session)
          /\ hist' = NoteInner(hist, "CODE_DESERIALIZATION_ERROR")
          /\ UNCHANGED balance
       \/ \E bundle \in Bundles, expected_modules \in SUBSET ModNames,
             checks \in {"Executed", "CONSTRAINT_NOT_SATISFIED"} :
          LET validation == validate_publish_request(bundle, expected_modules, checks)
              h1 == [hist EXCEPT !.validation_failed = (validation # "Executed")]
          IN
          IF ~validation_passed(validation)
          THEN /\ PayloadFailed(validation, session)
               /\ hist' = NoteInner(h1, validation)
               /\ UNCHANGED balance
          ELSE \E existing \in SUBSET Range(bundle) :
             \/ \* session.exists_module fails
                /\ PayloadFailed("STORAGE_ERROR", session)
                /\ hist' = NoteInner(h1, "STORAGE_ERROR")
                /\ UNCHANGED balance
             \/ \E c \in 0..MaxCharge,
                   compat \in {"Executed", "BACKWARD_INCOMPATIBLE_MODULE_UPDATE"} :
                LET status == IF ~Charge(balance, c).ok THEN "OUT_OF_GAS" ELSE compat
                    h2 == NoteOog([h1 EXCEPT !.publish_called = TRUE], status, "publish")
                IN
                /\ balance' = Charge(balance, c).balance
                /\ IF status # "Executed"
                   THEN /\ PayloadFailed(status, session)
                        /\ hist' = NoteInner(h2, status)
                   ELSE Published(publish_module_bundle(session, bundle, existing),
                                  bundle, existing, h2)
    /\ UNCHANGED <<outside_pipeline, cfg, txn, new_published_modules_loaded, loader_cache_invalid>>

\* the mutation: the call toggles the flag
module_bundle_disallowed_toggled(disallowed) == ~disallowed

\* allow_module_bundle_for_test: MODULE_BUNDLE_DISALLOWED.store(false)
module_bundle_disallowed_stored(disallowed) == FALSE

\* allow_module_bundle_for_test, which a test may call at any moment of a
\* run: the flag is a static of the process
allow_module_bundle_for_test ==
    /\ cfg' = [cfg EXCEPT !.module_bundle_disallowed = module_bundle_disallowed_stored(@)]
    /\ UNCHANGED <<outside_pipeline, txn, pc, balance, session, respawned,
                   new_published_modules_loaded, loader_cache_invalid, init_queue,
                   exists, err, vm_status, output, hist>>

\* execute_modules (the deprecated ModuleBundle payload) up to the call of
\* execute_module_initialization
execute_modules ==
    /\ pc = "payload"
    /\ txn.payload = "ModuleBundle"
    /\ IF cfg.module_bundle_disallowed
       THEN /\ Fail("FEATURE_UNDER_GATING")
            /\ UNCHANGED <<balance, hist>>
       ELSE \E intrinsic \in 0..MaxCharge :
          IF ~Charge(balance, intrinsic).ok
          THEN /\ balance' = 0
               /\ Fail("OUT_OF_GAS")
               /\ hist' = NoteOog(NoteIntrinsic(hist), "OUT_OF_GAS", "intrinsic")
          ELSE \E verify \in {"Executed", "DUPLICATE_MODULE_NAME", "CODE_DESERIALIZATION_ERROR"} :
             LET after == Charge(balance, intrinsic).balance IN
             IF verify # "Executed"
             THEN /\ balance' = after
                  /\ Fail(verify)
                  /\ hist' = NoteIntrinsic(hist)
             ELSE \E bundle \in Bundles, c \in 0..MaxCharge,
                     compat \in {"Executed", "BACKWARD_INCOMPATIBLE_MODULE_UPDATE"},
                     deserialized \in BOOLEAN :
                LET status == IF ~Charge(after, c).ok THEN "OUT_OF_GAS"
                              ELSE IF compat # "Executed" THEN compat
                              ELSE IF ~deserialized THEN "CODE_DESERIALIZATION_ERROR"
                              ELSE "Executed"
                    h1 == NoteOog([NoteIntrinsic(hist) EXCEPT !.publish_called = TRUE],
                                 status, "publish")
                IN
                /\ balance' = Charge(after, c).balance
                /\ IF status # "Executed"
                   THEN /\ Fail(status)
                        /\ hist' = h1
                   ELSE Published(publish_module_bundle(session, bundle, {}), bundle, {}, h1)
    /\ UNCHANGED <<outside_pipeline, cfg, txn, new_published_modules_loaded, loader_cache_invalid>>

\* the mutation: no module is taken as published before
already_exists_never(module, existing) == FALSE

\* execute_module_initialization: exists.contains(&module.self_id())
already_exists(module, existing) == module \in existing

\* the senders execute_module_initialization is given: the destination of the
\* publish request, the sender of a ModuleBundle transaction
senders == IF txn.payload = "ModuleBundle" THEN "sender" ELSE "destination"

\* execute_module_initialization, one iteration of its loop over the modules
execute_module_initialization ==
    /\ pc = "init"
    /\ init_queue # <<>>
    /\ LET module == Head(init_queue)
           last == Tail(init_queue) = <<>>
           continue(h) ==
               /\ init_queue' = Tail(init_queue)
               /\ IF last
                  THEN /\ PayloadOk
                       /\ exists' = {}
                       /\ hist' = NoteInner(h, "Executed")
                  ELSE /\ Goto("init", "Executed")
                       /\ hist' = h
                       /\ UNCHANGED exists
               /\ UNCHANGED respawned
       IN
       IF already_exists(module, exists)
       THEN \* call the initializer only on first publish
            /\ continue(hist)
            /\ UNCHANGED <<balance, session, new_published_modules_loaded>>
       ELSE /\ new_published_modules_loaded' = TRUE
            /\ \/ \* the module has no init_module
                  /\ continue(hist)
                  /\ UNCHANGED <<balance, session>>
               \/ \* init_module fails verify_module_init_function
                  /\ PayloadFailed("CONSTRAINT_NOT_SATISFIED", session)
                  /\ hist' = NoteInner([hist EXCEPT !.init_verify_failed = TRUE],
                                       "CONSTRAINT_NOT_SATISFIED")
                  /\ UNCHANGED balance
               \/ \E o \in MoveCall("main", TRUE, session) :
                  LET status == CallStatus(o, balance)
                      cs == SessionAfter(session, o.w, o.ev)
                      h1 == NoteOog([hist EXCEPT
                                        !.init_ran = TRUE,
                                        !.init_calls = Append(@, [module |-> module,
                                                                  signer |-> senders])],
                                    status, "init")
                  IN
                  /\ balance' = Charge(balance, o.c).balance
                  /\ IF status = "Executed"
                     THEN /\ continue(h1)
                          /\ session' = cs
                     ELSE /\ PayloadFailed(status, cs)
                          /\ hist' = NoteInner(h1, status)
    /\ UNCHANGED <<outside_pipeline, cfg, txn, loader_cache_invalid>>


(* --------------------- charging and the epilogues ---------------------- *)
\* the mutation: the refund is kept whatever the feature flag
storage_refund_kept(refund, enabled) == refund

\* charge_change_set_and_respawn_session: the refund of
\* process_storage_fee_for_all is zeroed unless
\* is_storage_deletion_refund_enabled()
storage_refund_under_features(refund, enabled) == IF enabled THEN refund ELSE 0

\* charge_change_set_and_respawn_session: finish the session, charge the I/O
\* gas of every write and the storage fee (c in all, each charge ending the
\* function on OUT_OF_GAS), respawn over the change set
charge_change_set_and_respawn_session(cs, gas_balance, session_finish, c, refund, enabled) ==
    IF session_finish # "Executed"
    THEN [status |-> session_finish, balance |-> gas_balance, respawned |-> NoRespawned]
    ELSE IF ~Charge(gas_balance, c).ok
    THEN [status |-> "OUT_OF_GAS", balance |-> 0, respawned |-> NoRespawned]
    ELSE [status |-> "Executed", balance |-> Charge(gas_balance, c).balance,
          respawned |-> spawn(cs, storage_refund_under_features(refund, enabled))]

\* the call of charge_change_set_and_respawn_session that ends
\* execute_script_or_entry_function, simulate_multisig_transaction and
\* execute_modules
charge_and_respawn ==
    /\ pc = "charge"
    /\ \E session_finish \in {"Executed", "EXECUTION_FAILURE"}, c \in 0..MaxCharge :
        LET r == charge_change_set_and_respawn_session(
                     session, balance, session_finish, c,
                     txn.storage_refund, cfg.storage_deletion_refund) IN
        /\ balance' = r.balance
        /\ hist' = NoteOog([hist EXCEPT !.charged = (r.status = "Executed")],
                           r.status, "charge")
        /\ IF r.status # "Executed"
           THEN Fail(r.status)
           ELSE /\ respawned' = r.respawned
                /\ session' = EmptyChangeSet
                /\ Goto("success_cleanup", "Executed")
                /\ UNCHANGED <<init_queue, exists>>
    /\ UNCHANGED <<outside_pipeline, cfg, txn, new_published_modules_loaded, loader_cache_invalid>>

CleanupCall(fn, execution_error) == [fn |-> fn, execution_error |-> execution_error]

\* the mutation: the successful cleanup is called whatever the result
cleanup_function_ignoring_result(execution_result) ==
    "successful_transaction_execution_cleanup"

\* execute_multisig_transaction, step 3: the multisig_account function the
\* result of the inner payload selects
cleanup_function(execution_result) ==
    IF execution_result # "Executed"
    THEN "failed_transaction_execution_cleanup"
    ELSE "successful_transaction_execution_cleanup"

\* the mutation: the cleanup function runs on the gas meter of the transaction
cleanup_on_gas_meter(gas_balance, c) == Charge(gas_balance, c)

\* the multisig cleanup functions run with &mut UnmeteredGasMeter: whatever
\* the execution costs (c), nothing is charged to the gas meter
cleanup_unmetered(gas_balance, c) == [ok |-> TRUE, balance |-> gas_balance]

\* success_multisig_payload_cleanup, called by execute_multisig_transaction
\* when the inner payload succeeded
success_multisig_payload_cleanup ==
    /\ pc = "multisig_cleanup"
    /\ err = "Executed"
    /\ \E session_finish \in {"Executed", "EXECUTION_FAILURE"}, c \in 0..MaxCharge :
        LET r == charge_change_set_and_respawn_session(
                     session, balance, session_finish, c,
                     txn.storage_refund, cfg.storage_deletion_refund) IN
        /\ IF r.status # "Executed"
           THEN /\ Fail(r.status)
                /\ balance' = r.balance
                /\ hist' = NoteOog(hist, r.status, "charge")
           ELSE \E o \in MoveCall("cleanup", FALSE, EmptyChangeSet), cost \in 0..MaxCharge :
                LET m == cleanup_unmetered(r.balance, cost)
                    status == IF m.ok THEN o.status ELSE "OUT_OF_GAS" IN
                /\ balance' = m.balance
                /\ hist' = NoteOog([hist EXCEPT
                     !.charged = TRUE,
                     !.cleanup_calls = Append(@, CleanupCall(cleanup_function(err), "none")),
                     !.balance_before_cleanup = <<r.balance>>,
                     !.cleanup_ok = (status = "Executed")], status, "cleanup")
                /\ IF status # "Executed"
                   THEN Fail(status)
                   ELSE /\ respawned' = execute(r.respawned, o)
                        /\ session' = EmptyChangeSet
                        /\ Goto("success_cleanup", "Executed")
                        /\ UNCHANGED <<init_queue, exists>>
    /\ UNCHANGED <<outside_pipeline, cfg, txn, new_published_modules_loaded, loader_cache_invalid>>

\* the mutation: the cleanup session is respawned over the failed session's writes
failure_cleanup_previous_change_set_kept == session

\* failure_multisig_payload_cleanup: the change set the cleanup session is
\* respawned on
failure_cleanup_previous_change_set == EmptyChangeSet

\* the mutation: the multisig path leaves the invalidation to the caller
invalidate_on_inner_failure_forgotten(loaded) == FALSE

\* execute_multisig_transaction: invalidate the loader cache when the inner
\* payload failed and a newly published module was loaded
invalidate_on_inner_failure(loaded) == loaded

\* failure_multisig_payload_cleanup, called by execute_multisig_transaction
\* when the inner payload failed with err
failure_multisig_payload_cleanup ==
    /\ pc = "multisig_cleanup"
    /\ err # "Executed"
    /\ loader_cache_invalid' =
          (loader_cache_invalid \/ invalidate_on_inner_failure(new_published_modules_loaded))
    /\ \E o \in MoveCall("cleanup", FALSE, EmptyChangeSet), cost \in 0..MaxCharge :
        LET m == cleanup_unmetered(balance, cost)
            status == IF m.ok THEN o.status ELSE "OUT_OF_GAS" IN
        /\ balance' = m.balance
        /\ hist' = NoteOog([hist EXCEPT
             !.cleanup_calls = Append(@, CleanupCall(cleanup_function(err), err)),
             !.balance_before_cleanup = <<balance>>,
             !.cleanup_ok = (status = "Executed")], status, "cleanup")
        /\ IF status # "Executed"
           THEN Fail(status)
           ELSE /\ respawned' = execute(spawn(failure_cleanup_previous_change_set, 0), o)
                /\ session' = EmptyChangeSet
                /\ Goto("success_cleanup", "Executed")
                /\ UNCHANGED <<init_queue, exists>>
    /\ UNCHANGED <<outside_pipeline, cfg, txn, new_published_modules_loaded>>

\* the mutation: the counters of the gas meter are checked at every version
check_consistency_always(gas_feature_version) == TRUE

\* the cleanups call gas_meter.algebra().check_consistency() from gas
\* feature version 12 on
check_consistency_performed(gas_feature_version) == gas_feature_version >= 12

\* success_transaction_cleanup: gas-meter consistency check, fee statement,
\* success epilogue in the respawned session, finish
success_transaction_cleanup ==
    /\ pc = "success_cleanup"
    /\ \/ \* check_consistency fails
          /\ check_consistency_performed(cfg.gas_feature_version)
          /\ Fail("UNKNOWN_INVARIANT_VIOLATION_ERROR")
          /\ hist' = [hist EXCEPT !.success_check = "failed"]
       \/ \E o \in MoveCall("epilogue", FALSE, respawned.session) :
          LET fee_statement == fee_statement_from_gas_meter(
                  txn.max_gas_amount, balance, respawned.storage_refund)
              rs == execute(respawned, o)
              checked == [hist EXCEPT !.success_check =
                            IF check_consistency_performed(cfg.gas_feature_version)
                            THEN "ok" ELSE "none"]
          IN
          IF o.status # "Executed"
          THEN /\ Fail(o.status)
               /\ hist' = checked
          ELSE \E session_finish \in {"Executed", "EXECUTION_FAILURE"},
                  squash_ok \in BOOLEAN :
               LET r == finish(rs, session_finish, squash_ok) IN
               /\ hist' = [checked EXCEPT
                    !.epilogue_ok = TRUE,
                    !.finish = IF r.status = "Executed" THEN "Executed"
                               ELSE IF session_finish = "Executed" /\ has_creation(rs.session)
                               THEN "creation"
                               ELSE IF session_finish = "Executed" /\ ~squash_ok
                               THEN "squash" ELSE "error"]
               /\ IF r.status # "Executed"
                  THEN Fail(r.status)
                  ELSE Return([vm_status |-> "Executed",
                               output |-> [status |-> Keep("Success"),
                                           change_set |-> r.change_set,
                                           fee_statement |-> fee_statement]])
    /\ UNCHANGED <<outside_pipeline, cfg, txn, balance, new_published_modules_loaded, loader_cache_invalid>>

(* ---------------------------- the failure path ------------------------- *)
\* the mutation: the join point invalidates after every failure
invalidate_on_failure_always(loaded) == TRUE

\* on_user_transaction_execution_failure: invalidate the loader cache when a
\* newly published module was loaded
invalidate_on_failure(loaded) == loaded

\* the mutation: the feature flag is read as disabled
charge_invariant_violation_disabled(c) == FALSE

\* get_features().is_enabled(FeatureFlag::CHARGE_INVARIANT_VIOLATION), as
\* on_user_transaction_execution_failure and
\* failed_transaction_cleanup_and_keep_vm_status read it
charge_invariant_violation_enabled(c) == c.charge_invariant_violation

\* the mutation: every failure is discarded
is_discarded_always(txn_status) == TRUE

\* TransactionStatus::is_discarded, as on_user_transaction_execution_failure asks it
is_discarded(txn_status) == txn_status.tag = "Discard"

\* on_user_transaction_execution_failure: the join point of every Err of the
\* payload functions; a discarded status ends the pipeline here
on_user_transaction_execution_failure ==
    /\ pc = "failure"
    /\ loader_cache_invalid' =
          (loader_cache_invalid \/ invalidate_on_failure(new_published_modules_loaded))
    /\ hist' = [hist EXCEPT !.failure_join = TRUE, !.join_err = err]
    /\ IF is_discarded(from_vm_status(err, charge_invariant_violation_enabled(cfg)))
       THEN Return(discard_error_vm_status(err))
       ELSE /\ Goto("failed_cleanup", err)
            /\ UNCHANGED <<session, respawned, init_queue, exists>>
    /\ UNCHANGED <<outside_pipeline, cfg, txn, balance, new_published_modules_loaded>>

\* failed_transaction_cleanup_and_keep_vm_status: a fresh EpilogueMeta session
\* on the base view (every attempted write dropped), the failure epilogue,
\* get_transaction_output
failed_transaction_cleanup_and_keep_vm_status ==
    /\ pc = "failed_cleanup"
    /\ \E consistent \in BOOLEAN :
       LET fee_statement == fee_statement_from_gas_meter(txn.max_gas_amount, balance, 0)
           status == from_vm_status(err, charge_invariant_violation_enabled(cfg))
           \* a failed check_consistency is printed, nothing more
           h == IF check_consistency_performed(cfg.gas_feature_version)
                THEN [hist EXCEPT !.failure_check = IF consistent THEN "ok" ELSE "failed"]
                ELSE hist
       IN
       /\ consistent \/ check_consistency_performed(cfg.gas_feature_version)
       /\ IF status.tag = "Discard"
          THEN /\ Return(discard_error_vm_status(status.st))
               /\ hist' = h
          ELSE \E o \in MoveCall("failure_epilogue", FALSE, EmptyChangeSet),
                  session_finish \in {"Executed", "EXECUTION_FAILURE"} :
               IF o.status # "Executed"
               THEN /\ Return(discard_error_vm_status(o.status))
                    /\ hist' = [h EXCEPT !.failure_epilogue = "failed"]
               ELSE IF session_finish # "Executed"
               THEN /\ Return([vm_status |-> err,
                               output |-> discard_error_vm_status(session_finish).output])
                    /\ hist' = [h EXCEPT !.failure_epilogue = "no_output"]
               ELSE /\ Return([vm_status |-> err,
                               output |-> [status |-> status,
                                           change_set |-> SessionAfter(EmptyChangeSet, o.w, o.ev),
                                           fee_statement |-> fee_statement]])
                    /\ hist' = [h EXCEPT !.failure_epilogue = "ok"]
    /\ UNCHANGED <<outside_pipeline, cfg, txn, balance, new_published_modules_loaded, loader_cache_invalid>>

Next ==
    \/ execute_user_transaction
    \/ validate_signed_transaction
    \/ create_account_if_does_not_exist
    \/ get_storage_gas_parameters
    \/ execute_script_or_entry_function
    \/ simulate_multisig_transaction
    \/ execute_multisig_transaction
    \/ execute_multisig_entry_function
    \/ resolve_pending_code_publish
    \/ execute_modules
    \/ execute_module_initialization
    \/ charge_and_respawn
    \/ success_multisig_payload_cleanup
    \/ failure_multisig_payload_cleanup
    \/ success_transaction_cleanup
    \/ on_user_transaction_execution_failure
    \/ failed_transaction_cleanup_and_keep_vm_status

Spec == Init /\ [][Next]_vars

\* the pipeline in a test build, where allow_module_bundle_for_test may be
\* called while a transaction is executed
NextGating ==
    \/ Next
    \/ allow_module_bundle_for_test

SpecGating == Init /\ [][NextGating]_vars

\* the pipeline run on the transactions and configurations of the storage refund
InitRefund ==
    /\ txn \in RefundTransactions
    /\ cfg \in RefundConfigs
    /\ pc = "start"
    /\ balance = txn.max_gas_amount
    /\ session = EmptyChangeSet
    /\ respawned = NoRespawned
    /\ new_published_modules_loaded = FALSE
    /\ loader_cache_invalid = FALSE
    /\ init_queue = <<>>
    /\ exists = {}
    /\ err = "Executed"
    /\ vm_status = "none"
    /\ output = NoOutput
    /\ hist = NoHistory
    /\ view = NoView
    /\ seen = {}
    /\ NoBlock
    /\ NoValidate
    /\ NoKnobs
    /\ NoConsensus
    /\ NoPublish
    /\ NoDelayed
    /\ NoBatch

SpecRefund == InitRefund /\ [][Next]_vars

(* --------------------- the overlay view of a change set ----------------- *)
\* ExecutorViewWithChangeSet answers the reads of a respawned session from
\* its change set first and from the base views second.  An Option is a
\* sequence of length at most one, bytes are the number they serialize.
VKeys == {"k"}
Tags == {"t0", "t1"}
Layouts == {<<>>, <<"L1">>, <<"L2">>}      \* Option<&MoveTypeLayout> of a read
StoredLayouts == {<<>>, <<"L1">>}          \* the layout kept beside a write op

\* the maps from (some of) the keys of D to R
PartialMaps(D, R) == UNION {[S -> R] : S \in SUBSET D}

ViewWrite(kind, n) == [kind |-> kind, bytes |-> n]
ResourceOps == {ViewWrite("Creation", 80), ViewWrite("Modification", 80),
                ViewWrite("Deletion", 0)}
InnerOps == {ViewWrite("Modification", 1000), ViewWrite("Deletion", 0)}
DeltaOps == {[add |-> 1, limit |-> 1000]}  \* delta_add(1, 1000)

\* WriteOp::as_state_value
as_state_value(write_op) ==
    IF write_op.kind = "Deletion" THEN <<>> ELSE <<write_op.bytes>>

\* WriteOp::extract_raw_bytes
extract_raw_bytes(write_op) ==
    IF write_op.kind = "Deletion" THEN <<>> ELSE <<write_op.bytes>>

\* the result of a read: Ok(value) or Err, and the call made on the base view
\* to get it (none when the change set answered)
ReadOk(value, asked) == [ok |-> TRUE, value |-> value, asked |-> asked]
ReadErr(asked) == [ok |-> FALSE, value |-> <<>>, asked |-> asked]

\* what a base view holds for a key: Ok(None), Ok(Some(bytes)) or an error
BaseAnswers(n) == {[ok |-> TRUE, value |-> <<>>], [ok |-> TRUE, value |-> <<n>>],
                   [ok |-> FALSE, value |-> <<>>]}

\* the base views answer from the state they hold
BaseRead(held, asked) == IF held.ok THEN ReadOk(held.value, asked) ELSE ReadErr(asked)

EmptyViewChangeSet ==
    [resource_write_set |-> <<>>, module_write_set |-> <<>>,
     aggregator_v1_write_set |-> <<>>, aggregator_v1_delta_set |-> <<>>,
     resource_group_write_set |-> <<>>]

EmptyBase ==
    [resource |-> [k \in VKeys |-> [ok |-> TRUE, value |-> <<>>]],
     module |-> [k \in VKeys |-> [ok |-> TRUE, value |-> <<>>]],
     aggregator |-> [k \in VKeys |-> [ok |-> TRUE, value |-> <<>>]],
     group |-> [k \in VKeys |-> [t \in Tags |-> [ok |-> TRUE, value |-> <<>>]]]]

GroupWrites ==
    [metadata_op : {ViewWrite("Modification", 0), ViewWrite("Deletion", 0)},
     inner_ops : PartialMaps(Tags, [op : InnerOps, layout : StoredLayouts])]

\* the views under study: the change set and the base hold entries of one
\* kind of read, the maps of the other kinds are empty
Views ==
    {[kind |-> "resource",
      change_set |-> [EmptyViewChangeSet EXCEPT !.resource_write_set = ws],
      base |-> [EmptyBase EXCEPT !.resource = b]] :
        ws \in PartialMaps(VKeys, [op : ResourceOps, layout : StoredLayouts]),
        b \in [VKeys -> BaseAnswers(30)]}
    \cup
    {[kind |-> "module",
      change_set |-> [EmptyViewChangeSet EXCEPT !.module_write_set = ws],
      base |-> [EmptyBase EXCEPT !.module = b]] :
        ws \in PartialMaps(VKeys, ResourceOps), b \in [VKeys -> BaseAnswers(10)]}
    \cup
    {[kind |-> "aggregator",
      change_set |-> [EmptyViewChangeSet EXCEPT !.aggregator_v1_write_set = w[1],
                                                !.aggregator_v1_delta_set = w[2]],
      base |-> [EmptyBase EXCEPT !.aggregator = b]] :
        w \in PartialMaps(VKeys, ResourceOps) \X PartialMaps(VKeys, DeltaOps),
        b \in [VKeys -> BaseAnswers(70) \cup BaseAnswers(1000)]}
    \cup
    {[kind |-> "group",
      change_set |-> [EmptyViewChangeSet EXCEPT !.resource_group_write_set = ws],
      base |-> [EmptyBase EXCEPT !.group = b]] :
        ws \in PartialMaps(VKeys, GroupWrites),
        b \in [VKeys -> [Tags -> BaseAnswers(100)]]}

\* randomly_check_layout_matches; random_number is the draw of
\* rand::thread_rng().gen_range(0, 100)
randomly_check_layout_matches(layout_1, layout_2, random_number) ==
    IF (layout_1 # <<>>) # (layout_2 # <<>>) THEN FALSE
    ELSE IF layout_1 # <<>> /\ random_number = 1 /\ layout_1 # layout_2 THEN FALSE
    ELSE TRUE

\* the mutation: every resource read goes to the base view
get_resource_state_value_base_only(v, state_key, maybe_layout) ==
    BaseRead(v.base.resource[state_key],
             <<"get_resource_state_value", state_key, maybe_layout>>)

\* TResourceView::get_resource_state_value
get_resource_state_value(v, state_key, maybe_layout) ==
    IF state_key \in DOMAIN v.change_set.resource_write_set
    THEN ReadOk(as_state_value(v.change_set.resource_write_set[state_key].op), <<>>)
    ELSE BaseRead(v.base.resource[state_key],
                  <<"get_resource_state_value", state_key, maybe_layout>>)

\* TModuleView::get_module_state_value
get_module_state_value(v, state_key) ==
    IF state_key \in DOMAIN v.change_set.module_write_set
    THEN ReadOk(as_state_value(v.change_set.module_write_set[state_key]), <<>>)
    ELSE BaseRead(v.base.module[state_key], <<"get_module_state_value", state_key>>)

\* the mutation: a group with a write answers for all of its tags
get_resource_from_group_write_is_whole_group(v, group_key, resource_tag, maybe_layout, random_number) ==
    IF group_key \in DOMAIN v.change_set.resource_group_write_set
    THEN LET inner_ops == v.change_set.resource_group_write_set[group_key].inner_ops IN
         IF resource_tag \in DOMAIN inner_ops
         THEN ReadOk(extract_raw_bytes(inner_ops[resource_tag].op), <<>>)
         ELSE ReadOk(<<>>, <<>>)
    ELSE BaseRead(v.base.group[group_key][resource_tag],
                  <<"get_resource_from_group", group_key, resource_tag, maybe_layout>>)

\* TResourceGroupView::get_resource_from_group
get_resource_from_group(v, group_key, resource_tag, maybe_layout, random_number) ==
    LET group_write_set == v.change_set.resource_group_write_set
        in_write_set ==
            /\ group_key \in DOMAIN group_write_set
            /\ resource_tag \in DOMAIN group_write_set[group_key].inner_ops
    IN
    IF in_write_set
    THEN LET inner == group_write_set[group_key].inner_ops[resource_tag] IN
         IF ~randomly_check_layout_matches(maybe_layout, inner.layout, random_number)
         THEN ReadErr(<<>>)
         ELSE ReadOk(extract_raw_bytes(inner.op), <<>>)
    ELSE BaseRead(v.base.group[group_key][resource_tag],
                  <<"get_resource_from_group", group_key, resource_tag, maybe_layout>>)

\* TAggregatorV1View::try_convert_aggregator_v1_delta_into_write_op of the
\* base view: the delta applied to the value the base holds
try_convert_aggregator_v1_delta_into_write_op(base, id, delta_op) ==
    LET held == base.aggregator[id] IN
    IF ~held.ok \/ held.value = <<>> THEN [ok |-> FALSE, op |-> ViewWrite("Deletion", 0)]
    ELSE IF held.value[1] + delta_op.add > delta_op.limit
    THEN [ok |-> FALSE, op |-> ViewWrite("Deletion", 0)]
    ELSE [ok |-> TRUE, op |-> ViewWrite("Modification", held.value[1] + delta_op.add)]

\* the mutation: the write set is looked up before the delta set
get_aggregator_v1_state_value_write_first(v, id) ==
    IF id \in DOMAIN v.change_set.aggregator_v1_write_set
    THEN ReadOk(as_state_value(v.change_set.aggregator_v1_write_set[id]), <<>>)
    ELSE IF id \in DOMAIN v.change_set.aggregator_v1_delta_set
    THEN LET w == try_convert_aggregator_v1_delta_into_write_op(
                      v.base, id, v.change_set.aggregator_v1_delta_set[id]) IN
         IF w.ok THEN ReadOk(as_state_value(w.op), <<"try_convert", id>>)
         ELSE ReadErr(<<"try_convert", id>>)
    ELSE BaseRead(v.base.aggregator[id], <<"get_aggregator_v1_state_value", id>>)

\* TAggregatorV1View::get_aggregator_v1_state_value
get_aggregator_v1_state_value(v, id) ==
    IF id \in DOMAIN v.change_set.aggregator_v1_delta_set
    THEN LET w == try_convert_aggregator_v1_delta_into_write_op(
                      v.base, id, v.change_set.aggregator_v1_delta_set[id]) IN
         IF w.ok THEN ReadOk(as_state_value(w.op), <<"try_convert", id>>)
         ELSE ReadErr(<<"try_convert", id>>)
    ELSE IF id \in DOMAIN v.change_set.aggregator_v1_write_set
    THEN ReadOk(as_state_value(v.change_set.aggregator_v1_write_set[id]), <<>>)
    ELSE BaseRead(v.base.aggregator[id], <<"get_aggregator_v1_state_value", id>>)

\* no transaction is in the pipeline
PipelineIdle ==
    /\ txn = [payload |-> "EntryFunction", fee_payer |-> FALSE, max_gas_amount |-> MaxGas,
              storage_refund |-> 0]
    /\ cfg = [is_simulation |-> FALSE, charge_invariant_violation |-> TRUE,
              sponsored_automatic_account_creation |-> FALSE,
              module_bundle_disallowed |-> TRUE, gas_feature_version |-> 12,
              storage_deletion_refund |-> FALSE]
    /\ pc = "idle"
    /\ balance = txn.max_gas_amount
    /\ session = EmptyChangeSet
    /\ respawned = NoRespawned
    /\ new_published_modules_loaded = FALSE
    /\ loader_cache_invalid = FALSE
    /\ init_queue = <<>>
    /\ exists = {}
    /\ err = "Executed"
    /\ vm_status = "none"
    /\ output = NoOutput
    /\ hist = NoHistory

\* ExecutorViewWithChangeSet::new over a change set and its base views
InitView ==
    /\ PipelineIdle
    /\ view \in Views
    /\ seen = {}
    /\ NoBlock
    /\ NoValidate
    /\ NoKnobs
    /\ NoConsensus
    /\ NoPublish
    /\ NoDelayed
    /\ NoBatch

Seen(call, result) ==
    /\ seen' = seen \cup {<<call, result>>}
    /\ UNCHANGED <<view, outside_view>>

read_resource ==
    /\ view.kind = "resource"
    /\ \E s \in VKeys, maybe_layout \in Layouts :
        Seen(<<"get_resource_state_value", s, maybe_layout>>,
             get_resource_state_value(view, s, maybe_layout))

read_module ==
    /\ view.kind = "module"
    /\ \E s \in VKeys :
        Seen(<<"get_module_state_value", s>>, get_module_state_value(view, s))

read_aggregator ==
    /\ view.kind = "aggregator"
    /\ \E s \in VKeys :
        Seen(<<"get_aggregator_v1_state_value", s>>,
             get_aggregator_v1_state_value(view, s))

\* the draws of gen_range(0, 100): 1, and one of the 99 others
RandomNumbers == {1, 2}

read_resource_from_group ==
    /\ view.kind = "group"
    /\ \E s \in VKeys, tag \in Tags, maybe_layout \in Layouts,
          random_number \in RandomNumbers :
        Seen(<<"get_resource_from_group", s, tag, maybe_layout>>,
             get_resource_from_group(view, s, tag, maybe_layout, random_number))

NextView ==
    \/ read_resource
    \/ read_module
    \/ read_aggregator
    \/ read_resource_from_group

SpecView == InitView /\ [][NextView]_vars

(* ------------------------------ execute_block --------------------------- *)
\* VMExecutor::execute_block hands the block to BlockAptosVM::execute_block,
\* which runs execute_single_transaction on each transaction in block order.
TxnKinds == {"Invalid", "BlockMetadata", "GenesisTransaction", "UserTransaction",
             "StateCheckpoint", "ValidatorTransaction"}
Block == UNION {[1..n -> TxnKinds] : n \in 0..MaxBlock}

\* event.event_key(): Some(key) for a keyed event, None for a module event
new_epoch_event_key == "new_epoch"
EventKeys == {<<new_epoch_event_key>>, <<"other">>, <<>>}
EventSeqs == UNION {[1..n -> EventKeys] : n \in 0..MaxOutputEvents}

\* the state keys and modules written by a VMOutput
write_set_of(vm_output) ==
    {k \in Keys : vm_output.change_set.res[k] # NoWrite}
        \cup {m \in ModNames : vm_output.change_set.mods[m] # NoWrite}

\* the TransactionOutput of a VMOutput that emitted `events`
into_transaction_output(vm_output, events) ==
    [status |-> vm_output.status, write_set |-> write_set_of(vm_output), events |-> events]

\* what execute_user_transaction returns: a kept output with the writes of
\* the transaction or of the failure epilogue, or a discard
UserOutputs ==
    {[status |-> Keep("Success"), write_set |-> {"r1"}, events |-> e] : e \in EventSeqs}
    \cup {[status |-> Keep("MoveAbort"), write_set |-> {"r1"}, events |-> <<>>]}
    \cup {into_transaction_output(discard_error_vm_status(c).output, <<>>) :
            c \in {"SEQUENCE_NUMBER_TOO_OLD", "UNKNOWN_INVARIANT_VIOLATION_ERROR"}}

\* what process_block_prologue returns through `?`: an error, or the output
\* of the block prologue, which emits new_epoch when it reconfigures
BlockPrologueOutcomes ==
    {[ok |-> TRUE, output |-> [status |-> Keep("Success"), write_set |-> {"r1"}, events |-> e]] :
        e \in {<<>>, <<<<"other">>>>, <<<<"other">>, <<new_epoch_event_key>>>>}}
    \cup {[ok |-> FALSE, output |-> into_transaction_output(NoOutput, <<>>)]}

\* the mutation: the placeholder turns validator transactions away
process_validator_transaction_discards ==
    discard_error_vm_status("FEATURE_UNDER_GATING")

\* process_validator_transaction
process_validator_transaction ==
    [vm_status |-> "Executed", output |-> empty_with_status(Keep("Success"))]

\* the genesis write sets: what execute_write_set returns for the payload,
\* the events of the change set it makes, and whether read_change_set can
\* read every key the change set writes
new_block_event_key == "new_block"
WaypointEvents ==
    UNION {[1..n -> {<<new_block_event_key>>, <<new_epoch_event_key>>}] :
              n \in 0..MaxOutputEvents}
WriteSetPayloads ==
    [execute_write_set : {"Executed", "EXECUTION_FAILURE"},
     events : WaypointEvents,
     read_change_set : {"Executed", "STORAGE_ERROR"}]
NoWriteSetPayload ==
    [execute_write_set |-> "none", events |-> <<>>, read_change_set |-> "none"]

\* the write-set payloads a transaction can carry
WriteSetPayloadsOf(t) ==
    IF t = "GenesisTransaction" THEN WriteSetPayloads ELSE {NoWriteSetPayload}

\* the mutation: a new epoch event is all a waypoint change set needs
validate_waypoint_change_set_epoch_only(events) ==
    IF \E i \in DOMAIN events : events[i] = <<new_epoch_event_key>>
    THEN "Executed" ELSE "INVALID_WRITE_SET"

\* validate_waypoint_change_set
validate_waypoint_change_set(events) ==
    LET has_new_block_event == \E i \in DOMAIN events : events[i] = <<new_block_event_key>>
        has_new_epoch_event == \E i \in DOMAIN events : events[i] = <<new_epoch_event_key>>
    IN  IF has_new_block_event /\ has_new_epoch_event
        THEN "Executed" ELSE "INVALID_WRITE_SET"

\* process_waypoint_change_set: Result<(VMStatus, VMOutput), VMStatus>, the
\* VMOutput being VMOutput::new(change_set, FeeStatement::zero(), Keep(Success))
WaypointErr(status) ==
    [ok |-> FALSE, status |-> status, fee_statement |-> ZeroFeeStatement,
     output |-> into_transaction_output(NoOutput, <<>>)]
process_waypoint_change_set(write_set_payload) ==
    IF write_set_payload.execute_write_set # "Executed"
    THEN WaypointErr(write_set_payload.execute_write_set)
    ELSE IF validate_waypoint_change_set(write_set_payload.events) # "Executed"
    THEN WaypointErr(validate_waypoint_change_set(write_set_payload.events))
    ELSE IF write_set_payload.read_change_set # "Executed"
    THEN WaypointErr("STORAGE_ERROR")
    ELSE [ok |-> TRUE, status |-> "Executed", fee_statement |-> ZeroFeeStatement,
          output |-> [status |-> Keep("Success"), write_set |-> {"r1"},
                      events |-> write_set_payload.events]]

\* the results the callee of execute_single_transaction can hand it (for an
\* Invalid transaction: what execute_user_transaction would, if it were called)
Outcomes(t) ==
    CASE t = "BlockMetadata" -> BlockPrologueOutcomes
      [] t \in {"UserTransaction", "Invalid"} ->
            {[ok |-> TRUE, output |-> o] : o \in UserOutputs}
      [] OTHER -> {[ok |-> TRUE, output |-> into_transaction_output(NoOutput, <<>>)]}

\* the mutation: the signature verification result is not looked at
execute_single_transaction_unchecked(t, outcome) == outcome

\* execute_single_transaction: Result<(VMStatus, VMOutput, ..), VMStatus>
execute_single_transaction(t, outcome) ==
    CASE t = "Invalid" ->
            [ok |-> TRUE,
             output |-> into_transaction_output(
                            discard_error_vm_status("INVALID_SIGNATURE").output, <<>>)]
      [] t = "StateCheckpoint" ->
            [ok |-> TRUE,
             output |-> into_transaction_output(empty_with_status(Keep("Success")), <<>>)]
      [] t = "ValidatorTransaction" ->
            [ok |-> TRUE,
             output |-> into_transaction_output(process_validator_transaction.output, <<>>)]
      [] OTHER -> outcome

\* the function execute_single_transaction calls for a transaction
callee(t) ==
    CASE t = "BlockMetadata" -> "process_block_prologue"
      [] t = "GenesisTransaction" -> "process_waypoint_change_set"
      [] t = "UserTransaction" -> "execute_user_transaction"
      [] t = "ValidatorTransaction" -> "process_validator_transaction"
      [] OTHER -> "none"

\* a call made by execute_single_transaction, the write-set payload it was
\* made with and the VMStatus and fee statement that came back
Call(function, write_set_payload, status, fee_statement) ==
    [callee |-> function, write_set_payload |-> write_set_payload, status |-> status,
     fee_statement |-> fee_statement]

\* the mutation: only the first event is looked at
should_restart_execution_first_event(vm_output) ==
    vm_output.events # <<>> /\ vm_output.events[1] = <<new_epoch_event_key>>

\* AptosVM::should_restart_execution
should_restart_execution(vm_output) ==
    \E i \in DOMAIN vm_output.events : vm_output.events[i] = <<new_epoch_event_key>>

\* Output::skip_output of the block executor: the output of a transaction
\* that was not run
skip_output == [status |-> [tag |-> "Retry", st |-> "none"], write_set |-> {}, events |-> <<>>]

\* execute_block is called on a block
InitBlock ==
    /\ PipelineIdle
    /\ view = NoView
    /\ seen = {}
    /\ transactions \in Block
    /\ outputs = <<>>
    /\ restarts = <<>>
    /\ calls = <<>>
    /\ ret = "none"
    /\ NoValidate
    /\ NoKnobs
    /\ NoConsensus
    /\ NoPublish
    /\ NoDelayed
    /\ NoBatch

\* execute_block up to the call of BlockAptosVM::execute_block; the fail point
\* move_adapter::execute_block returns Err
execute_block ==
    /\ ret = "none"
    /\ pc = "idle"
    /\ \E fail_point \in BOOLEAN : ret' = IF fail_point THEN "Err" ELSE "running"
    /\ UNCHANGED <<transactions, outputs, restarts, calls, outside_block>>

\* BlockAptosVM::execute_block, one transaction: execute_single_transaction,
\* then should_restart_execution on its output; an Err ends the block
execute_transaction ==
    /\ ret = "running"
    /\ Len(outputs) < Len(transactions)
    /\ ~(restarts # <<>> /\ restarts[Len(restarts)])
    /\ \E outcome \in Outcomes(transactions[Len(outputs) + 1]),
          write_set_payload \in WriteSetPayloadsOf(transactions[Len(outputs) + 1]) :
        LET t == transactions[Len(outputs) + 1]
            waypoint == process_waypoint_change_set(write_set_payload)
            r == execute_single_transaction(
                     t, IF t = "GenesisTransaction"
                        THEN [ok |-> waypoint.ok, output |-> waypoint.output]
                        ELSE outcome)
            call == IF t = "GenesisTransaction"
                    THEN Call(callee(t), write_set_payload, waypoint.status,
                              <<waypoint.fee_statement>>)
                    ELSE IF t = "ValidatorTransaction"
                    THEN Call(callee(t), NoWriteSetPayload,
                              process_validator_transaction.vm_status,
                              <<process_validator_transaction.output.fee_statement>>)
                    ELSE Call(callee(t), NoWriteSetPayload, "none", <<>>)
        IN
        /\ IF r.ok
           THEN /\ outputs' = Append(outputs, r.output)
                /\ restarts' = Append(restarts, should_restart_execution(r.output))
                /\ calls' = Append(calls, call)
                /\ UNCHANGED ret
           ELSE /\ outputs' = <<>>
                /\ restarts' = <<>>
                /\ calls' = <<call>>
                /\ ret' = "Err"
    /\ UNCHANGED <<transactions, outside_block>>

\* BlockAptosVM::execute_block after a restart was asked for: the
\* transactions left are not run
skip_rest ==
    /\ ret = "running"
    /\ Len(outputs) < Len(transactions)
    /\ restarts # <<>> /\ restarts[Len(restarts)]
    /\ outputs' = outputs \o [i \in 1..(Len(transactions) - Len(outputs)) |-> skip_output]
    /\ UNCHANGED <<transactions, restarts, calls, ret, outside_block>>

\* execute_block returns what BlockAptosVM::execute_block returned
execute_block_return ==
    /\ ret = "running"
    /\ Len(outputs) = Len(transactions)
    /\ ret' = "Ok"
    /\ UNCHANGED <<transactions, outputs, restarts, calls, outside_block>>

NextBlock ==
    \/ execute_block
    \/ execute_transaction
    \/ skip_rest
    \/ execute_block_return

SpecBlock == InitBlock /\ [][NextBlock]_vars

(* --------------------------- validate_transaction ----------------------- *)
\* VMValidator::validate_transaction: the mempool's admission check
Authenticators == {"SingleSender", "Ed25519"}

Requests ==
    [authenticator : Authenticators,
     signature_ok : BOOLEAN,             \* transaction.check_signature() is Ok
     duplicate_signers : BOOLEAN,        \* transaction.contains_duplicate_signers()
     payload : Payloads,
     gas_unit_price : 0..MaxGasPrice,
     single_sender_authenticator : BOOLEAN,   \* FeatureFlag::SINGLE_SENDER_AUTHENTICATOR
     module_bundle_disallowed : BOOLEAN]      \* MODULE_BUNDLE_DISALLOWED

\* what the prologue functions of the VM can return
GasChecks == {"Executed", "GAS_UNIT_PRICE_BELOW_MIN_BOUND"}
Prologues == {"Executed", "SEQUENCE_NUMBER_TOO_NEW", "SEQUENCE_NUMBER_TOO_OLD"}
MultisigPrologues == {"Executed", "MOVE_ABORT"}

\* run_prologue_with_payload: check_gas, then the prologue of the payload
run_prologue_with_payload(payload, disallowed, is_simulation, check_gas, prologue, multisig_prologue) ==
    CASE payload = "ModuleBundle" ->
            IF disallowed THEN "FEATURE_UNDER_GATING"
            ELSE IF check_gas # "Executed" THEN check_gas
            ELSE prologue
      [] payload = "Multisig" ->
            IF check_gas # "Executed" THEN check_gas
            ELSE IF prologue # "Executed" THEN prologue
            ELSE IF ~is_simulation THEN multisig_prologue
            ELSE "Executed"
      [] OTHER ->
            IF check_gas # "Executed" THEN check_gas ELSE prologue

\* validate_signed_transaction as a function of what its callees return
validate_signed_transaction_result(r, check_gas, prologue, multisig_prologue) ==
    IF r.duplicate_signers THEN "SIGNERS_CONTAIN_DUPLICATES"
    ELSE run_prologue_with_payload(r.payload, r.module_bundle_disallowed, FALSE,
                                   check_gas, prologue, multisig_prologue)

\* the mutation: a sequence number ahead of the account's is refused
validate_transaction_strict(r, check_gas, prologue, multisig_prologue) ==
    IF ~r.single_sender_authenticator /\ r.authenticator = "SingleSender"
    THEN VMValidatorResult_error("FEATURE_UNDER_GATING")
    ELSE IF ~r.signature_ok
    THEN VMValidatorResult_error("INVALID_SIGNATURE")
    ELSE LET result == validate_signed_transaction_result(
                           r, check_gas, prologue, multisig_prologue) IN
         IF result # "Executed"
         THEN VMValidatorResult(<<result>>, 0, result)
         ELSE VMValidatorResult(<<>>, r.gas_unit_price, result)

\* VMValidator::validate_transaction
validate_transaction_result(r, check_gas, prologue, multisig_prologue) ==
    IF ~r.single_sender_authenticator /\ r.authenticator = "SingleSender"
    THEN VMValidatorResult_error("FEATURE_UNDER_GATING")
    ELSE IF ~r.signature_ok
    THEN VMValidatorResult_error("INVALID_SIGNATURE")
    ELSE LET result == validate_signed_transaction_result(
                           r, check_gas, prologue, multisig_prologue) IN
         IF result # "Executed" /\ result # "SEQUENCE_NUMBER_TOO_NEW"
         THEN VMValidatorResult(<<result>>, 0, result)
         ELSE VMValidatorResult(<<>>, r.gas_unit_price, result)

\* a transaction is submitted for validation
InitValidate ==
    /\ PipelineIdle
    /\ view = NoView
    /\ seen = {}
    /\ NoBlock
    /\ request \in Requests
    /\ validator_result = NoValidation
    /\ stage_1 = NoStage1
    /\ NoKnobs
    /\ NoConsensus
    /\ NoPublish
    /\ NoDelayed
    /\ NoBatch

validate_transaction ==
    /\ ~validator_result.done
    /\ pc = "idle"
    /\ \E check_gas \in GasChecks, prologue \in Prologues,
          multisig_prologue \in MultisigPrologues :
        validator_result' = validate_transaction_result(request, check_gas, prologue,
                                                  multisig_prologue)
    /\ UNCHANGED <<request, stage_1, outside_validate>>

\* execute_user_transaction_impl, stage 1, as a function of what the callees
\* of validate_signed_transaction return: an Err is discarded
\* (status <<code>>), an Ok goes on to the next stages (status <<>>)
execute_user_transaction_impl_stage_1(r, check_gas, prologue, multisig_prologue) ==
    LET result == validate_signed_transaction_result(r, check_gas, prologue,
                                                      multisig_prologue) IN
    [done |-> TRUE,
     status |-> IF result # "Executed" THEN <<result>> ELSE <<>>,
     signed |-> result]

\* the execution pipeline is given the transaction, its signature verified
\* by execute_single_transaction
execute_user_transaction_stage_1 ==
    /\ ~stage_1.done
    /\ pc = "idle"
    /\ request.signature_ok
    /\ \E check_gas \in GasChecks, prologue \in Prologues,
          multisig_prologue \in MultisigPrologues :
        stage_1' = execute_user_transaction_impl_stage_1(request, check_gas, prologue,
                                                         multisig_prologue)
    /\ UNCHANGED <<request, validator_result, outside_validate>>

NextValidate ==
    \/ validate_transaction
    \/ execute_user_transaction_stage_1

SpecValidate == InitValidate /\ [][NextValidate]_vars

(* ------------------------ write-once configuration ---------------------- *)
\* the two steps of a setter: the argument is clamped on the caller's stack,
\* then OnceCell::set is called; a getter is one read of the cell
UsizeArgs(knob) ==
    CASE knob = "EXECUTION_CONCURRENCY_LEVEL" -> {1, NumCpus + 1}
      [] knob = "NUM_EXECUTION_SHARD" -> {0, 2}
      [] knob = "NUM_PROOF_READING_THREADS" -> {8, 300}

Min(a, b) == IF a <= b THEN a ELSE b
Max(a, b) == IF a >= b THEN a ELSE b

\* the mutation: a later set replaces the value
OnceCell_set_overwrites(cell, value) == <<value>>

\* OnceCell::set(value).ok(): stores the value in an empty cell, leaves a
\* full cell as it is; the Err of a full cell is dropped by .ok()
OnceCell_set(cell, value) == IF cell = <<>> THEN <<value>> ELSE cell

\* a thread enters a setter: `value` is what it will hand to OnceCell::set
Setting(t, knob, value) ==
    /\ contended = knob
    /\ threads[t].pc = "idle"
    /\ threads' = [threads EXCEPT ![t] = [pc |-> "set", knob |-> knob, value |-> <<value>>]]
    /\ UNCHANGED <<cells, got>>

set_concurrency_level_once ==
    /\ \E t \in Threads, concurrency_level \in UsizeArgs("EXECUTION_CONCURRENCY_LEVEL") :
        Setting(t, "EXECUTION_CONCURRENCY_LEVEL", Min(concurrency_level, NumCpus))
    /\ UNCHANGED <<contended, outside_knobs>>

set_num_shards_once ==
    /\ \E t \in Threads, num_shards \in UsizeArgs("NUM_EXECUTION_SHARD") :
        Setting(t, "NUM_EXECUTION_SHARD", Max(num_shards, 1))
    /\ UNCHANGED <<contended, outside_knobs>>

set_paranoid_type_checks ==
    /\ \E t \in Threads, enable \in BOOLEAN :
        Setting(t, "PARANOID_TYPE_CHECKS", enable)
    /\ UNCHANGED <<contended, outside_knobs>>

set_timed_feature_override ==
    /\ \E t \in Threads, profile \in {"Replay", "Testing"} :
        Setting(t, "TIMED_FEATURE_OVERRIDE", profile)
    /\ UNCHANGED <<contended, outside_knobs>>

set_num_proof_reading_threads_once ==
    /\ \E t \in Threads, num_threads \in UsizeArgs("NUM_PROOF_READING_THREADS") :
        Setting(t, "NUM_PROOF_READING_THREADS", Min(num_threads, 256))
    /\ UNCHANGED <<contended, outside_knobs>>

set_processed_transactions_detailed_counters ==
    /\ \E t \in Threads :
        Setting(t, "PROCESSED_TRANSACTIONS_DETAILED_COUNTERS", TRUE)
    /\ UNCHANGED <<contended, outside_knobs>>

\* the call of OnceCell::set that ends every setter
once_cell_set ==
    \E t \in Threads :
        /\ threads[t].pc = "set"
        /\ cells' = [cells EXCEPT ![threads[t].knob] = OnceCell_set(@, threads[t].value[1])]
        /\ threads' = [threads EXCEPT ![t] = IdleThread]
        /\ UNCHANGED <<got, contended, outside_knobs>>

\* a getter returns `value`
Got(knob, value) ==
    /\ got' = [knob |-> knob, value |-> <<value>>, tick |-> 1 - got.tick]
    /\ UNCHANGED <<cells, threads>>

get_concurrency_level ==
    /\ Got("EXECUTION_CONCURRENCY_LEVEL",
           IF cells["EXECUTION_CONCURRENCY_LEVEL"] # <<>>
           THEN cells["EXECUTION_CONCURRENCY_LEVEL"][1] ELSE 1)
    /\ UNCHANGED <<contended, outside_knobs>>

get_num_shards ==
    /\ Got("NUM_EXECUTION_SHARD",
           IF cells["NUM_EXECUTION_SHARD"] # <<>>
           THEN cells["NUM_EXECUTION_SHARD"][1] ELSE 1)
    /\ UNCHANGED <<contended, outside_knobs>>

get_paranoid_checks ==
    /\ Got("PARANOID_TYPE_CHECKS",
           IF cells["PARANOID_TYPE_CHECKS"] # <<>>
           THEN cells["PARANOID_TYPE_CHECKS"][1] ELSE TRUE)
    /\ UNCHANGED <<contended, outside_knobs>>

\* TIMED_FEATURE_OVERRIDE.get().cloned(): the Option itself
get_timed_feature_override ==
    /\ Got("TIMED_FEATURE_OVERRIDE", cells["TIMED_FEATURE_OVERRIDE"])
    /\ UNCHANGED <<contended, outside_knobs>>

get_num_proof_reading_threads ==
    /\ Got("NUM_PROOF_READING_THREADS",
           IF cells["NUM_PROOF_READING_THREADS"] # <<>>
           THEN cells["NUM_PROOF_READING_THREADS"][1] ELSE 32)
    /\ UNCHANGED <<contended, outside_knobs>>

get_processed_transactions_detailed_counters ==
    /\ Got("PROCESSED_TRANSACTIONS_DETAILED_COUNTERS",
           IF cells["PROCESSED_TRANSACTIONS_DETAILED_COUNTERS"] # <<>>
           THEN cells["PROCESSED_TRANSACTIONS_DETAILED_COUNTERS"][1] ELSE FALSE)
    /\ UNCHANGED <<contended, outside_knobs>>

\* process start: every OnceCell::new() is empty; the cells are separate
\* statics, and the threads of one run contend for one of them
InitKnobs ==
    /\ PipelineIdle
    /\ view = NoView
    /\ seen = {}
    /\ NoBlock
    /\ NoValidate
    /\ cells = [k \in Knobs |-> <<>>]
    /\ threads = [t \in Threads |-> IdleThread]
    /\ got = NoGet
    /\ contended \in Knobs
    /\ NoConsensus
    /\ NoPublish
    /\ NoDelayed
    /\ NoBatch

NextKnobs ==
    \/ set_concurrency_level_once
    \/ set_num_shards_once
    \/ set_paranoid_type_checks
    \/ set_timed_feature_override
    \/ set_num_proof_reading_threads_once
    \/ set_processed_transactions_detailed_counters
    \/ once_cell_set
    \/ get_concurrency_level
    \/ get_num_shards
    \/ get_paranoid_checks
    \/ get_timed_feature_override
    \/ get_num_proof_reading_threads
    \/ get_processed_transactions_detailed_counters

SpecKnobs == InitKnobs /\ [][NextKnobs]_vars

(* --------------------------- execution proxy --------------------------- *)
\* the validator transactions of the tests are told apart by their bytes
ValidatorTransactions == {"v0", "v1", "v2"}
SignedTransactions == {"u0"}
MaxValidatorTxns == 2
MaxUserTxns == 1

SeqsUpTo(S, n) == UNION {[1..k -> S] : k \in 0..n}

\* a consensus block: its validator transactions, the user transactions of
\* its payload, and the status the executor gave the user transactions
BlockData ==
    {b \in [validator_txns : SeqsUpTo(ValidatorTransactions, MaxValidatorTxns),
            user_txns : SeqsUpTo(SignedTransactions, MaxUserTxns),
            user_status : {"Keep", "Discard", "none"}] :
        (b.user_txns = <<>>) <=> (b.user_status = "none")}

ConsensusTxn(kind, body) == [kind |-> kind, body |-> body]

\* the other order: the payload before the validator transactions
combine_user_transactions_first(validator_txns, txns, metadata) ==
    <<ConsensusTxn("BlockMetadata", metadata)>>
        \o [i \in 1..Len(txns) |-> ConsensusTxn("UserTransaction", txns[i])]
        \o [i \in 1..Len(validator_txns) |->
                ConsensusTxn("ValidatorTransaction", validator_txns[i])]

\* Block::combine_to_input_transactions: the block metadata, then the
\* validator transactions, then the user transactions
combine_to_input_transactions(validator_txns, txns, metadata) ==
    <<ConsensusTxn("BlockMetadata", metadata)>>
        \o [i \in 1..Len(validator_txns) |->
                ConsensusTxn("ValidatorTransaction", validator_txns[i])]
        \o [i \in 1..Len(txns) |-> ConsensusTxn("UserTransaction", txns[i])]

\* the compute status of the block: the VM keeps the block metadata, every
\* validator transaction (process_validator_transaction) and the state
\* checkpoint; the user transactions carry the status of the block
compute_status(b) ==
    <<"Keep">>
        \o [i \in 1..Len(b.validator_txns) |-> "Keep"]
        \o [i \in 1..Len(b.user_txns) |-> b.user_status]
        \o <<"Keep">>

RECURSIVE keep_only(_, _)
keep_only(txns, status) ==
    IF txns = <<>> THEN <<>>
    ELSE IF Head(status) = "Keep"
         THEN <<Head(txns)>> \o keep_only(Tail(txns), Tail(status))
         ELSE keep_only(Tail(txns), Tail(status))

\* Block::transactions_to_commit: the input transactions and the state
\* checkpoint, less those whose status is not Keep
transactions_to_commit(b) ==
    keep_only(
        combine_to_input_transactions(b.validator_txns, b.user_txns, "metadata")
            \o <<ConsensusTxn("StateCheckpoint", "block_id")>>,
        compute_status(b))

\* a block is at hand; the proxy has been given an epoch with no-op
\* deduper, shuffler and an empty filter
InitConsensus ==
    /\ PipelineIdle
    /\ view = NoView
    /\ seen = {}
    /\ NoBlock
    /\ NoValidate
    /\ NoKnobs
    /\ consensus_block \in BlockData
    /\ blocks_received = <<>>
    /\ invocations = <<>>
    /\ NoPublish
    /\ NoDelayed
    /\ NoBatch

\* ExecutionProxy::schedule_compute: the block's transactions reach
\* execute_and_state_checkpoint of the executor
schedule_compute ==
    /\ blocks_received = <<>>
    /\ blocks_received' = Append(blocks_received,
            combine_to_input_transactions(consensus_block.validator_txns,
                                          consensus_block.user_txns, "metadata"))
    /\ UNCHANGED <<consensus_block, invocations, outside_consensus>>

\* ExecutionProxy::commit of the executed block: state sync is notified with
\* the transactions to commit
commit ==
    /\ invocations = <<>>
    /\ invocations' = Append(invocations, transactions_to_commit(consensus_block))
    /\ UNCHANGED <<consensus_block, blocks_received, outside_consensus>>

NextConsensus ==
    \/ schedule_compute
    \/ commit

SpecConsensus == InitConsensus /\ [][NextConsensus]_vars

(* ------------------------ validate_publish_request --------------------- *)
\* the addresses and names of the modules a bundle can depend on
Addresses == {"a1", "a2"}
DepNames == {"X"}
Dependencies == [address : Addresses, name : DepNames]
\* the names an entry of allowed_deps can hold: the wildcard, the name of a
\* dependency, another name
AllowedNames == {"", "X", "Z"}
MaxModules == 2

\* a compiled module of the bundle: its short name, its immediate dependencies
CompiledModules == [name : ModNames, deps : SUBSET Dependencies]

\* PublishRequest: bundle, expected_modules, allowed_deps (None: <<>>)
PublishRequests ==
    [modules : SeqsUpTo(CompiledModules, MaxModules),
     expected_modules : SUBSET ModNames,
     allowed_deps : {<<>>} \cup {<<a>> : a \in PartialMaps(Addresses, SUBSET AllowedNames)}]

\* the mutation: an address of allowed_deps allows every module at it
dependency_allowed_by_address(allowed, dep) == dep.address \in DOMAIN allowed

\* allowed.get(dep.address()).map(|modules| modules.contains("") ||
\* modules.contains(dep.name())).unwrap_or(false)
dependency_allowed(allowed, dep) ==
    IF dep.address \in DOMAIN allowed
    THEN "" \in allowed[dep.address] \/ dep.name \in allowed[dep.address]
    ELSE FALSE

\* the loop of validate_publish_request with its three checks of a module:
\* the name is taken out of expected_modules, the dependencies are looked up
\* in allowed_deps, verify_module_metadata; all three fail with
\* metadata_validation_error
RECURSIVE validate_each_module(_, _, _, _)
validate_each_module(modules, expected_modules, allowed_deps, metadata) ==
    IF modules = <<>> THEN [ok |-> TRUE, expected_modules |-> expected_modules]
    ELSE LET m == Head(modules) IN
         IF m.name \notin expected_modules
         THEN [ok |-> FALSE, expected_modules |-> expected_modules]
         ELSE IF /\ allowed_deps # <<>>
                 /\ \E dep \in m.deps : ~dependency_allowed(allowed_deps[1], dep)
         THEN [ok |-> FALSE, expected_modules |-> expected_modules \ {m.name}]
         ELSE IF ~metadata[Len(metadata) - Len(modules) + 1]
         THEN [ok |-> FALSE, expected_modules |-> expected_modules \ {m.name}]
         ELSE validate_each_module(Tail(modules), expected_modules \ {m.name},
                                   allowed_deps, metadata)

\* metadata_validation_error
metadata_validation_error == "CONSTRAINT_NOT_SATISFIED"

\* validate_publish_request with its dependencies spelled out; metadata[i] is
\* whether verify_module_metadata accepts the i-th module, groups and events
\* what validate_resource_groups and validate_module_events return
validate_publish_request_on(r, metadata, groups, events) ==
    LET looped == validate_each_module(r.modules, r.expected_modules, r.allowed_deps,
                                       metadata) IN
    IF ~looped.ok THEN metadata_validation_error
    ELSE IF groups # "Executed" THEN groups
    ELSE IF events # "Executed" THEN events
    ELSE IF looped.expected_modules # {} THEN metadata_validation_error
    ELSE "Executed"

\* resolve_pending_code_publish has extracted a publish request
InitPublish ==
    /\ PipelineIdle
    /\ view = NoView
    /\ seen = {}
    /\ NoBlock
    /\ NoValidate
    /\ NoKnobs
    /\ NoConsensus
    /\ NoDelayed
    /\ NoBatch
    /\ publish_request \in PublishRequests
    /\ publish_result = NoPublishResult

\* the call of validate_publish_request
validate_publish_request_call ==
    /\ ~publish_result.done
    /\ pc = "idle"
    /\ \E metadata \in [1..Len(publish_request.modules) -> BOOLEAN],
          groups \in {"Executed", "CONSTRAINT_NOT_SATISFIED"},
          events \in {"Executed", "CONSTRAINT_NOT_SATISFIED"} :
        publish_result' =
            [done |-> TRUE,
             status |-> validate_publish_request_on(publish_request, metadata, groups, events),
             validators |-> IF /\ \A i \in DOMAIN metadata : metadata[i]
                               /\ groups = "Executed"
                               /\ events = "Executed"
                            THEN "passed" ELSE "failed"]
    /\ UNCHANGED <<publish_request, outside_publish>>

NextPublish == validate_publish_request_call

SpecPublish == InitPublish /\ [][NextPublish]_vars


(* ------------------ delayed-field reads of the overlay view ------------- *)
\* ExecutorViewWithChangeSet as a TDelayedFieldView: the reads are answered
\* from delayed_field_change_set first and from the base view second.
DelayedFieldIDs == {"a", "b"}
\* the max_value every aggregator of the views is bounded by
MaxValue == 2
\* the frames of get_delayed_field_value the stack of the thread holds
MaxFrames == 4

\* DelayedFieldValue: Aggregator(u128), Snapshot(u128), Derived(bytes wrapping
\* the number of a snapshot)
DelayedValue(kind, n) == [kind |-> kind, v |-> n]
NoValue == DelayedValue("none", 0)
CreatedValues == {DelayedValue("Aggregator", 0), DelayedValue("Aggregator", MaxValue),
                  DelayedValue("Snapshot", 1), DelayedValue("Derived", 1)}
SignedDeltas == {-1, 1}

\* DelayedChange: Create(value) or Apply(DelayedApplyChange), the latter
\* AggregatorDelta {delta}, SnapshotDelta {base_aggregator, delta} or
\* SnapshotDerived {base_snapshot, formula}; "None" is an id without entry
DelayedChange(kind, value, delta, base) ==
    [kind |-> kind, value |-> value, delta |-> delta, base |-> base]
DelayedChanges ==
    {DelayedChange("None", NoValue, 0, "none")}
    \cup {DelayedChange("Create", value, 0, "none") : value \in CreatedValues}
    \cup {DelayedChange("AggregatorDelta", NoValue, d, "none") : d \in SignedDeltas}
    \cup {DelayedChange("SnapshotDelta", NoValue, d, b) : d \in SignedDeltas, b \in DelayedFieldIDs}
    \cup {DelayedChange("SnapshotDerived", NoValue, 0, b) : b \in DelayedFieldIDs}

\* a call on a delayed-field view, the one made on the overlay or the one
\* passed on to the base view; NoAsk: none was passed on
DelayedCall(method, id, base_delta, delta, max_value) ==
    [method |-> method, id |-> id, base_delta |-> base_delta, delta |-> delta,
     max_value |-> max_value]
NoAsk == DelayedCall("none", "none", 0, 0, 0)

\* Result<DelayedFieldValue or bool, PanicOr<DelayedFieldsSpeculativeError>>
\* with the call made on the base view to get it
DelayedOk(value, asked) == [ok |-> TRUE, value |-> value, err |-> "none", asked |-> asked]
DelayedErr(e, asked) == [ok |-> FALSE, value |-> NoValue, err |-> e, asked |-> asked]
Outcome(b) == DelayedValue("bool", IF b THEN 1 ELSE 0)

\* what the base view holds for an id: a value, or nothing it can answer with
BaseHeld == {[ok |-> TRUE, value |-> DelayedValue("Aggregator", 1)],
             [ok |-> TRUE, value |-> DelayedValue("Snapshot", 1)],
             [ok |-> FALSE, value |-> NoValue]}

DelayedViews ==
    [change_set : [DelayedFieldIDs -> DelayedChanges], base : [DelayedFieldIDs -> BaseHeld]]

\* BoundedMath::unsigned_add_delta
unsigned_add_delta(max_value, base, delta) ==
    LET n == base + delta IN
    IF 0 <= n /\ n <= max_value THEN [ok |-> TRUE, v |-> n] ELSE [ok |-> FALSE, v |-> 0]

\* base_executor_view.get_delayed_field_value
base_get_delayed_field_value(base, id) ==
    LET asked == DelayedCall("get_delayed_field_value", id, 0, 0, 0) IN
    IF base[id].ok THEN DelayedOk(base[id].value, asked) ELSE DelayedErr("base", asked)

\* base_executor_view.delayed_field_try_add_delta_outcome
base_delayed_field_try_add_delta_outcome(base, id, base_delta, delta, max_value) ==
    LET asked == DelayedCall("delayed_field_try_add_delta_outcome", id, base_delta, delta,
                             max_value)
        prev == unsigned_add_delta(max_value, base[id].value.v, base_delta)
    IN  IF ~base[id].ok \/ base[id].value.kind # "Aggregator" \/ ~prev.ok
        THEN DelayedErr("base", asked)
        ELSE DelayedOk(Outcome(unsigned_add_delta(max_value, prev.v, delta).ok), asked)

\* ApplyBase: Previous(id) or Current(id)
ApplyBase(kind, id) == [kind |-> kind, id |-> id]

\* DelayedApplyChange::get_apply_base_id
get_apply_base_id(apply, id) ==
    CASE apply.kind = "SnapshotDelta" -> ApplyBase("Previous", apply.base)
      [] apply.kind = "SnapshotDerived" -> ApplyBase("Current", apply.base)
      [] OTHER -> ApplyBase("Previous", id)

\* DelayedApplyChange::apply_to_base
apply_to_base(apply, base_value, asked) ==
    LET sum == unsigned_add_delta(MaxValue, base_value.v, apply.delta) IN
    CASE apply.kind = "AggregatorDelta" ->
            IF base_value.kind # "Aggregator" \/ ~sum.ok
            THEN DelayedErr("code_invariant_error", asked)
            ELSE DelayedOk(DelayedValue("Aggregator", sum.v), asked)
      [] apply.kind = "SnapshotDelta" ->
            IF base_value.kind # "Aggregator" \/ ~sum.ok
            THEN DelayedErr("code_invariant_error", asked)
            ELSE DelayedOk(DelayedValue("Snapshot", sum.v), asked)
      [] OTHER ->
            IF base_value.kind # "Snapshot"
            THEN DelayedErr("code_invariant_error", asked)
            ELSE DelayedOk(DelayedValue("Derived", base_value.v), asked)

\* the mutation: the base of an Apply is always read from the base view
reads_overlay_never(apply_base) == FALSE

\* get_delayed_field_value: ApplyBase::Current is resolved by a call on self,
\* "to include current change", ApplyBase::Previous by the base view
reads_overlay(apply_base) == apply_base.kind = "Current"

\* one frame of get_delayed_field_value(id): either it returns a result
\* without calling self, or it calls self.get_delayed_field_value(base_id)
Returns(result) == [recurse |-> FALSE, id |-> "none", result |-> result]
Recurses(base_id) == [recurse |-> TRUE, id |-> base_id, result |-> DelayedErr("none", NoAsk)]
get_delayed_field_value_frame(v, id) ==
    LET change == v.change_set[id]
        apply_base == get_apply_base_id(change, id)
        base_value == base_get_delayed_field_value(v.base, apply_base.id)
    IN  CASE change.kind = "Create" -> Returns(DelayedOk(change.value, NoAsk))
          [] change.kind = "None" -> Returns(base_get_delayed_field_value(v.base, id))
          [] OTHER ->
                IF ~reads_overlay(apply_base)
                THEN Returns(IF base_value.ok
                             THEN apply_to_base(change, base_value.value, base_value.asked)
                             ELSE base_value)
                ELSE IF apply_base.id = id
                THEN Returns(DelayedErr("code_invariant_error", NoAsk))
                ELSE Recurses(apply_base.id)

\* the frames below the one that returned `result` apply their change to it,
\* an error passing through them (`?`)
RECURSIVE unwind(_, _, _)
unwind(v, frames, result) ==
    IF frames = <<>> THEN result
    ELSE LET id == frames[Len(frames)] IN
         unwind(v, SubSeq(frames, 1, Len(frames) - 1),
                IF result.ok
                THEN apply_to_base(v.change_set[id], result.value, result.asked)
                ELSE result)

\* ExecutorViewWithChangeSet::new over a delayed_field_change_set
InitDelayed ==
    /\ PipelineIdle
    /\ view = NoView
    /\ seen = {}
    /\ NoBlock
    /\ NoValidate
    /\ NoKnobs
    /\ NoConsensus
    /\ NoPublish
    /\ delayed_view \in DelayedViews
    /\ resolving = NoCall
    /\ resolved = {}
    /\ NoBatch

\* the calls of one method that returned
ResolvedOf(method) == {p \in resolved : p[1].method = method}

\* a call of get_delayed_field_value(id) on the overlay
get_delayed_field_value_call ==
    /\ resolving.state = "idle"
    /\ ResolvedOf("delayed_field_try_add_delta_outcome") = {}
    /\ \E id \in DelayedFieldIDs :
        resolving' = [state |-> "running", stack |-> <<id>>]
    /\ UNCHANGED <<delayed_view, resolved, outside_delayed>>

\* the innermost frame of the call runs: it returns, and the frames below it
\* with it, or it calls self once more; a call that finds the stack of the
\* thread full overflows it
get_delayed_field_value ==
    /\ resolving.state = "running"
    /\ LET stack == resolving.stack
           frame == get_delayed_field_value_frame(delayed_view, stack[Len(stack)])
       IN  IF ~frame.recurse
           THEN /\ resolved' = resolved \cup
                       {<<DelayedCall("get_delayed_field_value", stack[1], 0, 0, 0),
                          unwind(delayed_view, SubSeq(stack, 1, Len(stack) - 1),
                                 frame.result)>>}
                /\ resolving' = NoCall
           ELSE /\ resolving' =
                       IF Len(stack) >= MaxFrames
                       THEN [resolving EXCEPT !.state = "stack overflow"]
                       ELSE [resolving EXCEPT !.stack = Append(@, frame.id)]
                /\ UNCHANGED resolved
    /\ UNCHANGED <<delayed_view, outside_delayed>>


\* DeltaWithMax::create_merged_delta of DeltaWithMax::new(base_delta, max_value)
\* and the delta of the change, which has the same max_value: the updates are
\* added in the bounded math of max_value
create_merged_delta(base_delta, change_delta, max_value) ==
    LET update == base_delta + change_delta IN
    IF -max_value <= update /\ update <= max_value
    THEN [ok |-> TRUE, update |-> update] ELSE [ok |-> FALSE, update |-> 0]

\* the mutation: the base view is asked with the base_delta of the caller
delayed_field_try_add_delta_outcome_unmerged(v, id, base_delta, delta, max_value) ==
    base_delayed_field_try_add_delta_outcome(v.base, id, base_delta, delta, max_value)

\* ExecutorViewWithChangeSet::delayed_field_try_add_delta_outcome
delayed_field_try_add_delta_outcome(v, id, base_delta, delta, max_value) ==
    LET change == v.change_set[id]
        prev_value == unsigned_add_delta(max_value, change.value.v, base_delta)
        merged == create_merged_delta(base_delta, change.delta, max_value)
    IN  CASE change.kind = "Create" ->
                IF change.value.kind # "Aggregator" \/ ~prev_value.ok
                THEN DelayedErr("code_invariant_error", NoAsk)
                ELSE DelayedOk(Outcome(unsigned_add_delta(max_value, prev_value.v, delta).ok),
                               NoAsk)
          [] change.kind = "AggregatorDelta" ->
                IF ~merged.ok
                THEN DelayedErr("code_invariant_error", NoAsk)
                ELSE base_delayed_field_try_add_delta_outcome(v.base, id, merged.update,
                                                              delta, max_value)
          [] change.kind \in {"SnapshotDelta", "SnapshotDerived"} ->
                DelayedErr("code_invariant_error", NoAsk)
          [] OTHER ->
                base_delayed_field_try_add_delta_outcome(v.base, id, base_delta, delta,
                                                         max_value)

\* the base_delta a caller passes
BaseDeltas == {-MaxValue, 0, 1}

\* a call of delayed_field_try_add_delta_outcome on the overlay, the one call
\* of the run
delayed_field_try_add_delta_outcome_call ==
    /\ resolving.state = "idle"
    /\ resolved = {}
    /\ \E id \in DelayedFieldIDs, base_delta \in BaseDeltas, delta \in SignedDeltas :
        resolved' = {<<DelayedCall("delayed_field_try_add_delta_outcome", id, base_delta,
                                   delta, MaxValue),
                       delayed_field_try_add_delta_outcome(delayed_view, id, base_delta,
                                                           delta, MaxValue)>>}
    /\ UNCHANGED <<delayed_view, resolving, outside_delayed>>

NextDelayed ==
    \/ get_delayed_field_value_call
    \/ get_delayed_field_value
    \/ delayed_field_try_add_delta_outcome_call

SpecDelayed == InitDelayed /\ [][NextDelayed]_vars


(* ------------------------- BatchRequester::request_batch ---------------- *)
\* the peers that signed the proof of the batch
Peers == <<"p1", "p2", "p3">>
\* a signer list has at most MaxSigners peers
MaxSigners == 3
\* retry_limit ranges over 0..MaxRetryLimit
MaxRetryLimit == 2
\* request_num_peers ranges over 0..MaxRequestNumPeers
MaxRequestNumPeers == 3
\* rng.gen::<usize>() draws one of 0..MaxRng
MaxRng == 3

SignerLists == {SubSeq(Peers, 1, n) : n \in 0..MaxSigners}
RngValues == 0..MaxRng

\* Option<T>
None == <<>>
Some(x) == <<x>>

\* the batch a peer answers with
Batch(peer) == [batch_info |-> <<"info", peer>>, transactions |-> <<"txns", peer>>]
into_transactions(batch) == batch.transactions

\* BatchRequesterState::new
BatchRequesterState_new(signers, retry_limit, request_num_peers) ==
    [signers |-> signers, next_index |-> 0, num_retries |-> 0, retry_limit |-> retry_limit,
     request_num_peers |-> request_num_peers]

\* signers.iter().cycle().skip(next_index).take(num_peers); cycling an empty list yields nothing
cycle_skip_take(signers, next_index, num_peers) ==
    IF signers = <<>> THEN <<>>
    ELSE [i \in 1..num_peers |-> signers[((next_index + i - 1) % Len(signers)) + 1]]

next_index_unwrapped(next_index, num_peers, len) == next_index + num_peers

\* self.next_index = (self.next_index + num_peers) % self.signers.len()
next_index_after(next_index, num_peers, len) == (next_index + num_peers) % len

\* next_request_peers: the state it leaves and what it returns; a remainder by an empty
\* signer list's length panics
next_request_peers(s, rng, num_peers) ==
    LET len == Len(s.signers)
        first == s.num_retries = 0
        begin == IF first /\ len > 0 THEN rng % len ELSE s.next_index
    IN  IF first /\ len = 0 THEN [panicked |-> TRUE, state |-> s, begin |-> begin, ret |-> None]
        ELSE IF s.num_retries < s.retry_limit THEN
            IF len = 0 THEN [panicked |-> TRUE, state |-> s, begin |-> begin, ret |-> None]
            ELSE [panicked |-> FALSE,
                  state |-> [s EXCEPT !.num_retries = @ + 1,
                                      !.next_index = next_index_after(begin, num_peers, len)],
                  begin |-> begin,
                  ret |-> Some(cycle_skip_take(s.signers, begin, num_peers))]
        ELSE [panicked |-> FALSE, state |-> [s EXCEPT !.next_index = begin],
              begin |-> begin, ret |-> None]

CouldNotGetData == [ok |-> FALSE, payload |-> <<>>]

serve_request_dropped(tx, maybe_payload) == tx

\* serve_request: one send on ret_tx, Ok(payload) or Err(CouldNotGetData)
serve_request(tx, maybe_payload) ==
    IF maybe_payload # None
    THEN Append(tx, [ok |-> TRUE, payload |-> maybe_payload[1]])
    ELSE Append(tx, CouldNotGetData)

Running == [state |-> "running", value |-> None]
Panicked == [state |-> "panicked", value |-> None]
Returned(value) == [state |-> "returned", value |-> value]

InitBatch ==
    /\ PipelineIdle
    /\ view = NoView
    /\ seen = {}
    /\ NoBlock
    /\ NoValidate
    /\ NoKnobs
    /\ NoConsensus
    /\ NoPublish
    /\ NoDelayed
    /\ \E signers \in SignerLists, retry_limit \in 0..MaxRetryLimit,
          request_num_peers \in 0..MaxRequestNumPeers :
            request_state = BatchRequesterState_new(signers, retry_limit, request_num_peers)
    /\ futures = <<>>
    /\ issued = <<>>
    /\ ret_tx = <<>>
    /\ request_batch_ret = Running

\* the interval.tick() arm of the select
interval_tick ==
    /\ request_batch_ret.state = "running"
    /\ \E rng \in RngValues :
        LET r == next_request_peers(request_state, rng, request_state.request_num_peers) IN
        IF r.panicked THEN
            /\ request_batch_ret' = Panicked
            /\ UNCHANGED <<request_state, futures, issued, ret_tx>>
        ELSE IF r.ret # None THEN
            /\ request_state' = r.state
            /\ futures' = futures \o r.ret[1]
            /\ issued' = Append(issued, [begin |-> r.begin, peers |-> r.ret[1]])
            /\ UNCHANGED <<ret_tx, request_batch_ret>>
        ELSE IF futures = <<>> THEN
            \* break, then serve_request(digest, None) and None
            /\ request_state' = r.state
            /\ ret_tx' = serve_request(ret_tx, None)
            /\ request_batch_ret' = Returned(None)
            /\ UNCHANGED <<futures, issued>>
        ELSE
            /\ request_state' = r.state
            /\ UNCHANGED <<futures, issued, ret_tx, request_batch_ret>>
    /\ UNCHANGED outside_batch

Remove(seq, i) == SubSeq(seq, 1, i - 1) \o SubSeq(seq, i + 1, Len(seq))

\* the futures.next() arm of the select: one RPC completes, with a batch or with an error
\* or a timeout; returning drops the RPCs still in flight
futures_next ==
    /\ request_batch_ret.state = "running"
    /\ futures # <<>>
    /\ \E i \in 1..Len(futures), ok \in BOOLEAN :
        IF ok THEN
            LET batch == Batch(futures[i])
                payload == into_transactions(batch)
            IN  /\ ret_tx' = serve_request(ret_tx, Some(payload))
                /\ request_batch_ret' = Returned(Some([batch_info |-> batch.batch_info,
                                                       payload |-> payload]))
                /\ futures' = <<>>
                /\ UNCHANGED <<request_state, issued>>
        ELSE
            /\ futures' = Remove(futures, i)
            /\ UNCHANGED <<request_state, issued, ret_tx, request_batch_ret>>
    /\ UNCHANGED outside_batch

NextBatch ==
    \/ interval_tick
    \/ futures_next

SpecBatch == InitBatch /\ [][NextBatch]_vars

\* the interval keeps ticking and every RPC completes
SpecBatchFair == SpecBatch /\ WF_vars(interval_tick) /\ WF_vars(futures_next)

(* ------------------------------ properties ----------------------------- *)
Done == pc = "done"
Discarded == Done /\ output.status.tag = "Discard"
Kept == Done /\ output.status.tag = "Keep"
Succeeded == Done /\ output.status = Keep("Success")

\* who wrote the ops and emitted the events of a change set
Writers(cs) ==
    ({cs.res[k].by : k \in Keys} \cup {cs.mods[m].by : m \in ModNames}
        \cup Range(cs.events)) \ {"none"}

\* the kinds of the ops of a change set written by one of `origins`
KindsBy(cs, origins) ==
    {cs.res[k].kind : k \in {x \in Keys : cs.res[x].by \in origins}}

\* the inner payload of a multisig transaction was executed and failed
InnerFailed == hist.inner \notin {"none", "Executed"}

\* C1 (Discard purity): every output with status Discard that the pipeline
\* returns (invalid signature, prologue failure, sponsored-account-creation
\* failure, discarded error at the failure join point, failure-epilogue
\* failure) has no write, no event and a fee statement charging no gas.
DiscardPurity ==
    Discarded =>
        /\ Writers(output.change_set) = {}
        /\ output.change_set = EmptyChangeSet
        /\ output.change_set.events = <<>>
        /\ output.fee_statement.gas_used = 0

\* a transaction discarded by a failing failure epilogue after gas was charged
DiscardPurityWitness ==
    /\ Discarded
    /\ hist.failure_epilogue = "failed"
    /\ balance < txn.max_gas_amount

\* C2 as stated: every Multisig execution past the prologue (the payload was
\* dispatched: the pipeline returned a success or went through the failure
\* join point) has invoked exactly one cleanup function exactly once when the
\* pipeline returns.
MultisigCleanupAlways ==
    (Done /\ txn.payload = "Multisig" /\ hist.prologue_passed
          /\ (Succeeded \/ hist.failure_join))
        => Len(hist.cleanup_calls) = 1

\* C2 (Multisig cleanup), amended: no execution invokes more than one cleanup
\* function or one more than once; a non-simulated Multisig execution whose
\* inner payload failed has invoked failed_transaction_execution_cleanup
\* exactly once, one whose inner payload succeeded and whose change set was
\* charged has invoked successful_transaction_execution_cleanup exactly once;
\* a simulation, a failure before the inner payload and a failure of the
\* charging invoke none.
MultisigCleanupOnce ==
    /\ Len(hist.cleanup_calls) <= 1
    /\ (Done /\ InnerFailed) =>
          /\ Len(hist.cleanup_calls) = 1
          /\ hist.cleanup_calls[1].fn = "failed_transaction_execution_cleanup"
    /\ (Done /\ hist.inner = "Executed" /\ hist.charged) =>
          /\ Len(hist.cleanup_calls) = 1
          /\ hist.cleanup_calls[1].fn = "successful_transaction_execution_cleanup"
    /\ (Done /\ (hist.inner = "none" \/ (hist.inner = "Executed" /\ ~hist.charged)))
          => hist.cleanup_calls = <<>>
    /\ (Done /\ txn.payload = "Multisig" /\ cfg.is_simulation) => hist.inner = "none"

\* a multisig transaction kept as a success after its successful cleanup
MultisigCleanupOnceWitness ==
    /\ Succeeded
    /\ hist.inner = "Executed"
    /\ Len(hist.cleanup_calls) = 1

\* C3 (Multisig failed inner payload): when the inner payload failed, its
\* session is dropped, failed_transaction_execution_cleanup is called once,
\* with the inner failure, in a session respawned on the empty change set,
\* and once cleanup, epilogue and finish have succeeded the output is
\* Keep(Success) with writes and events of the cleanup and the epilogue only.
MultisigFailedInner ==
    /\ (InnerFailed /\ pc \in {"success_cleanup", "failure", "failed_cleanup", "done"}) =>
          /\ hist.cleanup_calls =
                <<CleanupCall("failed_transaction_execution_cleanup", hist.inner)>>
          /\ session = EmptyChangeSet
    /\ (InnerFailed /\ pc = "success_cleanup") =>
          /\ respawned.open
          /\ respawned.previous = EmptyChangeSet
    /\ (Done /\ InnerFailed /\ hist.cleanup_ok /\ hist.epilogue_ok
            /\ hist.finish = "Executed") =>
          /\ output.status = Keep("Success")
          /\ Writers(output.change_set) \subseteq {"cleanup", "epilogue"}

\* a failed inner payload ending in Keep(Success) with a write of the cleanup
MultisigFailedInnerWitness ==
    /\ Succeeded
    /\ InnerFailed
    /\ "cleanup" \in Writers(output.change_set)

\* C4 as stated: once publish validation has failed, the loader cache is
\* marked invalid by the time the pipeline returns.
FailedValidationInvalidates ==
    (Done /\ hist.validation_failed) => loader_cache_invalid

\* C4, amended: the loader cache is marked invalid only after a newly
\* published module was loaded (new_published_modules_loaded); publish
\* validation precedes every load, so a transaction whose publish validation
\* failed returns with the flag false and the cache not invalidated.
FailedValidationLeavesCache ==
    /\ loader_cache_invalid => new_published_modules_loaded
    /\ hist.validation_failed =>
          /\ ~new_published_modules_loaded
          /\ ~loader_cache_invalid

\* a transaction kept with the error of its failed publish validation
FailedValidationLeavesCacheWitness ==
    /\ Done
    /\ hist.validation_failed
    /\ vm_status = "CONSTRAINT_NOT_SATISFIED"
    /\ output.status = Keep("MiscellaneousError")

\* C5 (Publish atomicity): once validate_publish_request has failed, the bundle
\* is never passed to publish_module_bundle_with_compat_config, no init_module
\* runs, and neither the session nor the output holds a module write.
PublishAtomicity ==
    hist.validation_failed =>
        /\ ~hist.publish_called
        /\ ~hist.init_ran
        /\ init_queue = <<>>
        /\ \A m \in ModNames :
              /\ session.mods[m] = NoWrite
              /\ respawned.previous.mods[m] = NoWrite
              /\ output.change_set.mods[m] = NoWrite

\* a kept transaction whose publish validation failed
PublishAtomicityWitness ==
    /\ Kept
    /\ hist.validation_failed

\* the writes of the publishing session do not reach the output: the pipeline
\* went through the failure join point, or a multisig inner payload failed
PublishDropped == hist.failure_join \/ InnerFailed

\* C6 (Loader-cache discipline): when the pipeline returns with
\* new_published_modules_loaded true and the publishing session's writes
\* dropped, mark_loader_cache_as_invalid has been called; and the flag, once
\* true, stays true until the pipeline returns.
LoaderCacheDiscipline ==
    /\ []((Done /\ new_published_modules_loaded /\ PublishDropped) => loader_cache_invalid)
    /\ [][new_published_modules_loaded => new_published_modules_loaded']_vars

\* a tolerated multisig inner failure, after a module was loaded, that never
\* reached the failure join point
LoaderCacheDisciplineWitness ==
    /\ Succeeded
    /\ new_published_modules_loaded
    /\ InnerFailed
    /\ ~hist.failure_join
    /\ loader_cache_invalid

\* C7 (Respawned-finish guard): a finish whose respawned session produced a
\* change set with a Creation returns UNKNOWN_INVARIANT_VIOLATION_ERROR and no
\* change set (the pipeline is at the failure join point with that error, all
\* sessions dropped), and no Keep(Success) output holds a Creation written by
\* the cleanup or the epilogue.
RespawnedFinishGuard ==
    /\ (pc = "failure" /\ hist.finish = "creation") =>
          /\ err = "UNKNOWN_INVARIANT_VIOLATION_ERROR"
          /\ respawned = NoRespawned
    /\ hist.finish = "creation" => ~Succeeded
    /\ Succeeded =>
          "Creation" \notin KindsBy(output.change_set, {"cleanup", "epilogue"})

\* finish has just refused a change set with a Creation
RespawnedFinishGuardWitness ==
    /\ pc = "failure"
    /\ hist.finish = "creation"

\* C8 as stated: a Creation in the respawned session ends in
\* Discard(UNKNOWN_INVARIANT_VIOLATION_ERROR) with an empty change set under
\* every feature configuration.
CreationAlwaysDiscarded ==
    (Done /\ hist.finish = "creation") =>
        output = empty_with_status(Discard("UNKNOWN_INVARIANT_VIOLATION_ERROR"))

\* C8, amended: a Creation in the respawned session ends in
\* Discard(UNKNOWN_INVARIANT_VIOLATION_ERROR) with an empty change set when
\* CHARGE_INVARIANT_VIOLATION is disabled; when it is enabled the failure
\* epilogue runs and the output is Keep(MiscellaneousError) with the writes of
\* the failure epilogue only, or a Discard when that epilogue fails; it is
\* never Keep(Success).
CreationGuardOutcome ==
    (Done /\ hist.finish = "creation") =>
        /\ vm_status \in {"UNKNOWN_INVARIANT_VIOLATION_ERROR", "MOVE_ABORT"}
        /\ IF ~cfg.charge_invariant_violation
           THEN /\ output = empty_with_status(Discard("UNKNOWN_INVARIANT_VIOLATION_ERROR"))
                /\ hist.failure_epilogue = "none"
           ELSE /\ hist.failure_epilogue # "none"
                /\ hist.failure_epilogue = "ok" =>
                      /\ output.status = Keep("MiscellaneousError")
                      /\ Writers(output.change_set) \subseteq {"failure_epilogue"}
                /\ hist.failure_epilogue # "ok" =>
                      /\ Discarded
                      /\ output.change_set = EmptyChangeSet

\* the Creation kept as a MiscellaneousError under CHARGE_INVARIANT_VIOLATION
CreationGuardOutcomeWitness ==
    /\ Done
    /\ hist.finish = "creation"
    /\ cfg.charge_invariant_violation
    /\ output.status = Keep("MiscellaneousError")

\* C9 (Gas accounting): the balance of the meter stays within
\* 0..max_gas_amount on every path, so max_gas_amount - balance never
\* underflows, and every Keep output carries gas_used = max_gas_amount -
\* balance (the balance at the return), at most max_gas_amount.
GasAccounting ==
    /\ balance \in 0..txn.max_gas_amount
    /\ output.fee_statement.gas_used # -1
    /\ Kept =>
          /\ output.fee_statement.gas_used = txn.max_gas_amount - balance
          /\ output.fee_statement.gas_used <= txn.max_gas_amount

\* a kept output that charges gas
GasAccountingWitness ==
    /\ Kept
    /\ output.fee_statement.gas_used > 0

\* C10 as stated: an OUT_OF_GAS raised anywhere after the prologue ends in
\* Keep(OutOfGas).
OutOfGasAlwaysKept ==
    (Done /\ hist.oog_at # "none") => output.status = Keep("OutOfGas")

\* the OUT_OF_GAS was raised inside the inner payload of a multisig
\* transaction, where execute_multisig_transaction tolerates it
OogTolerated == Cleaned /\ hist.oog_at \in {"inner", "publish", "init"}

\* C10, amended: an OUT_OF_GAS of the intrinsic gas, the payload (its fetch,
\* publish and module init included) or the change-set charging reaches the
\* failure join point, the failure epilogue runs, and the output is
\* Keep(OutOfGas) charging max_gas_amount - balance when that epilogue
\* succeeds and a Discard when it fails, never Keep(Success); an OUT_OF_GAS of
\* the sponsored account creation is discarded; one inside the inner payload
\* of a multisig transaction goes to failed_transaction_execution_cleanup.
OutOfGasOutcome ==
    /\ (Done /\ hist.oog_at = "create_account") =>
          output = empty_with_status(Discard("OUT_OF_GAS"))
    /\ (Done /\ hist.oog_at \notin {"none", "create_account"} /\ ~OogTolerated) =>
          /\ hist.failure_join
          /\ vm_status \in {"OUT_OF_GAS", "MOVE_ABORT", "UNKNOWN_INVARIANT_VIOLATION_ERROR"}
          /\ hist.failure_epilogue # "none"
          /\ ~Succeeded
          /\ hist.failure_epilogue = "ok" =>
                /\ output.status = Keep("OutOfGas")
                /\ output.fee_statement.gas_used = txn.max_gas_amount - balance
          /\ hist.failure_epilogue # "ok" => Discarded
    /\ (Done /\ OogTolerated) =>
          hist.cleanup_calls =
              <<CleanupCall("failed_transaction_execution_cleanup", "OUT_OF_GAS")>>

\* the change-set charging ran out of gas and the transaction was kept
OutOfGasOutcomeWitness ==
    /\ Done
    /\ hist.oog_at = "charge"
    /\ output.status = Keep("OutOfGas")
    /\ output.fee_statement.gas_used = txn.max_gas_amount

FinishSquashes ==
    /\ [][(pc = "success_cleanup" /\ pc' = "done" /\ output'.status = Keep("Success")) =>
            \E o \in MoveCall("epilogue", FALSE, respawned.session) :
                LET previous == respawned.previous
                    additional == SessionAfter(respawned.session, o.w, o.ev)
                IN
                /\ o.status = "Executed"
                /\ ~has_creation(additional)
                /\ \A k \in Keys : output'.change_set.res[k] =
                        IF additional.res[k] # NoWrite THEN additional.res[k]
                        ELSE previous.res[k]
                /\ \A m \in ModNames : output'.change_set.mods[m] =
                        IF additional.mods[m] # NoWrite THEN additional.mods[m]
                        ELSE previous.mods[m]
                /\ output'.change_set.events = previous.events \o additional.events]_vars
    /\ []((pc = "failure" /\ hist.finish = "squash") =>
            /\ err = "UNKNOWN_INVARIANT_VIOLATION_ERROR"
            /\ session = EmptyChangeSet
            /\ respawned = NoRespawned)
    /\ [](hist.finish = "squash" => ~Succeeded)

\* a resource written by the payload and again by the success epilogue, a
\* module written by the publish only, and the events of both in order
FinishSquashesWitness ==
    /\ Succeeded
    /\ output.change_set.res["r1"].by = "epilogue"
    /\ output.change_set.mods["M"].by = "publish"
    /\ output.change_set.events = <<"main", "epilogue">>


\* C22 (Failure path isolation): a user transaction that failed after the
\* prologue and is kept went through the failure join point and a successful
\* failure epilogue; its status is not Success, its change set holds writes
\* and events of the failure epilogue only (none of the main session, the
\* published bundle, the multisig cleanup or the respawned epilogue session,
\* and no module write), its fee statement charges the gas used up to the
\* failure, and the failure path never changes the balance of the gas meter.
FailurePathIsolation ==
    /\ []((Kept /\ ~Succeeded) =>
            /\ hist.prologue_passed
            /\ hist.failure_join
            /\ hist.failure_epilogue = "ok"
            /\ Writers(output.change_set) \subseteq {"failure_epilogue"}
            /\ \A m \in ModNames : output.change_set.mods[m] = NoWrite
            /\ output.fee_statement.gas_used = txn.max_gas_amount - balance
            /\ output.fee_statement.storage_fee_refund = 0)
    /\ []((Kept /\ hist.failure_join) => ~Succeeded)
    /\ [][(pc \in {"failure", "failed_cleanup"}) => (balance' = balance)]_vars

\* a kept failure after a bundle was published and gas was charged, with a
\* write of the failure epilogue
FailurePathIsolationWitness ==
    /\ Kept
    /\ hist.failure_join
    /\ hist.publish_called
    /\ balance < txn.max_gas_amount
    /\ "failure_epilogue" \in Writers(output.change_set)


\* C23 (Gas-meter consistency check): from gas feature version 12 on, a
\* check_consistency that fails when the success cleanup starts makes
\* success_transaction_cleanup return the error: the success epilogue has not
\* run, the respawned session is dropped unfinished, and the transaction goes
\* through the failure join point with that error, so it never ends as
\* Keep(Success); a check that fails in the failure cleanup changes nothing:
\* the failure epilogue still runs and, when it succeeds, the transaction is
\* kept with the status of the error the join point was given; below version
\* 12 neither cleanup performs the check.
GasMeterConsistencyCheck ==
    /\ hist.success_check = "failed" =>
          /\ cfg.gas_feature_version >= 12
          /\ ~hist.epilogue_ok
          /\ hist.finish = "none"
          /\ ~respawned.open
          /\ pc \in {"failure", "failed_cleanup", "done"}
          /\ Done =>
                /\ hist.failure_join
                /\ hist.join_err = "UNKNOWN_INVARIANT_VIOLATION_ERROR"
                /\ ~Succeeded
    /\ hist.failure_check = "failed" =>
          /\ Done
          /\ hist.failure_epilogue # "none"
          /\ hist.failure_epilogue = "ok" =>
                /\ vm_status = hist.join_err
                /\ output.status = from_vm_status(hist.join_err, cfg.charge_invariant_violation)
                /\ output.fee_statement.gas_used = txn.max_gas_amount - balance
    /\ cfg.gas_feature_version < 12 =>
          /\ hist.success_check = "none"
          /\ hist.failure_check = "none"
    /\ (Succeeded /\ cfg.gas_feature_version >= 12) => hist.success_check = "ok"
    /\ (Done /\ hist.failure_epilogue # "none" /\ cfg.gas_feature_version >= 12)
          => hist.failure_check # "none"

\* a transaction whose counters were inconsistent at the success cleanup and
\* again at the failure cleanup, kept with the invariant violation
GasMeterConsistencyCheckWitness ==
    /\ Kept
    /\ hist.success_check = "failed"
    /\ hist.failure_check = "failed"
    /\ output.status = Keep("MiscellaneousError")


\* the payload of the transaction was dispatched and was not turned away by
\* a gate before any gas could be charged
Dispatched ==
    /\ Done
    /\ hist.prologue_passed
    /\ Succeeded \/ hist.failure_join
    /\ ~(txn.payload = "ModuleBundle" /\ cfg.module_bundle_disallowed)
    /\ vm_status # "MISSING_DATA"

\* C24 (Intrinsic gas): every user transaction that passed the prologue and
\* whose payload was dispatched has had charge_intrinsic_gas_for_transaction
\* called exactly once, for every payload and in execution as in simulation,
\* and no metered stage (account auto-creation, payload, multisig payload
\* fetch, publish, I/O and storage charging) ran on the gas meter before it.
IntrinsicGasOnceAndFirst ==
    /\ hist.intrinsic_charges <= 1
    /\ hist.metered_before_intrinsic = "none"
    /\ Dispatched => hist.intrinsic_charges = 1


\* C26 (Failure epilogue failing): when the failure epilogue fails, or its
\* session cannot be turned into an output, the pipeline returns a Discard
\* with the empty change set and a fee statement charging nothing (with the
\* status of the epilogue's error in the first case, with the original error
\* as VMStatus in the second); and the failure path never returns a Keep
\* whose failure epilogue did not run successfully.
FailureEpilogueFailing ==
    /\ hist.failure_epilogue # "none" => (Done /\ hist.failure_join)
    /\ hist.failure_epilogue \in {"failed", "no_output"} =>
          /\ Discarded
          /\ output.change_set = EmptyChangeSet
          /\ output.fee_statement = ZeroFeeStatement
    /\ hist.failure_epilogue = "failed" => output.status = Discard(vm_status)
    /\ hist.failure_epilogue = "no_output" => vm_status = hist.join_err
    /\ (Kept /\ hist.failure_join) => hist.failure_epilogue = "ok"

\* a discard by a failure-epilogue session that gave no output, after gas
\* was charged
FailureEpilogueFailingWitness ==
    /\ Discarded
    /\ hist.failure_epilogue = "no_output"
    /\ balance < txn.max_gas_amount


\* C27 (Sponsored account auto-creation): create_account_if_does_not_exist is
\* invoked, after the prologue has passed, exactly when the authenticator is
\* FeePayer and SPONSORED_AUTOMATIC_ACCOUNT_CREATION is enabled; when the call
\* fails the pipeline returns at once a Discard with the status code of that
\* error and the empty output: the payload was not run, no intrinsic gas and
\* no change set was charged, and neither the failure join point nor the
\* failure epilogue was reached.
SponsoredAccountCreation ==
    /\ hist.account_creation # "none" =>
          /\ hist.prologue_passed
          /\ txn.fee_payer
          /\ cfg.sponsored_automatic_account_creation
    /\ (hist.prologue_passed /\ txn.fee_payer /\ cfg.sponsored_automatic_account_creation
            /\ pc # "create_account")
          => hist.account_creation # "none"
    /\ pc = "create_account" => (hist.prologue_passed /\ hist.account_creation = "none")
    /\ hist.account_creation = "failed" =>
          /\ Done
          /\ output = empty_with_status(Discard(vm_status))
          /\ vm_status \notin {"Executed", "none"}
          /\ hist.intrinsic_charges = 0
          /\ hist.inner = "none"
          /\ ~hist.publish_called
          /\ ~hist.charged
          /\ ~hist.failure_join
          /\ hist.failure_epilogue = "none"
          /\ ~loader_cache_invalid

\* a sponsored transaction discarded because the account creation ran out
\* of gas
SponsoredAccountCreationWitness ==
    /\ Discarded
    /\ hist.account_creation = "failed"
    /\ vm_status = "OUT_OF_GAS"
    /\ balance < txn.max_gas_amount


\* the modules a publish request put in the session as upgrades
Upgraded(cs) == {m \in ModNames : cs.mods[m] = WriteOp("Modification", "publish")}

\* C29 (init_module on first publish only): for a publish request, the set
\* `exists` the initialization works with is the set of bundle modules that
\* were there before the bundle was published (those published as upgrades);
\* each iteration takes the next module of the bundle, runs no init_module
\* and charges nothing for a module of `exists`, and otherwise runs at most
\* the init_module of that module, with the destination as signer; so no
\* module that existed before has init_module run; and an init_module that
\* fails verify_module_init_function fails the publish with
\* CONSTRAINT_NOT_SATISFIED.
InitModuleOnFirstPublish ==
    /\ []((pc = "init" /\ txn.payload # "ModuleBundle") =>
            /\ exists = Upgraded(session)
            /\ \A i \in DOMAIN hist.init_calls :
                  /\ hist.init_calls[i].module \notin exists
                  /\ hist.init_calls[i].signer = "destination")
    /\ [](hist.init_verify_failed =>
            /\ hist.publish_called
            /\ pc \in {"multisig_cleanup", "success_cleanup", "failure",
                       "failed_cleanup", "done"}
            /\ IF Cleaned
               THEN hist.inner = "CONSTRAINT_NOT_SATISFIED"
               ELSE /\ pc = "failure" => err = "CONSTRAINT_NOT_SATISFIED"
                    /\ hist.failure_join => hist.join_err = "CONSTRAINT_NOT_SATISFIED"
                    /\ ~Succeeded)
    /\ [][(pc = "init") =>
            LET module == Head(init_queue) IN
            /\ init_queue' \in {Tail(init_queue), <<>>}
            /\ hist'.init_calls \in
                  {hist.init_calls,
                   Append(hist.init_calls,
                          [module |-> module,
                           signer |-> IF txn.payload = "ModuleBundle"
                                      THEN "sender" ELSE "destination"])}
            /\ module \in exists =>
                  /\ hist'.init_calls = hist.init_calls
                  /\ ~hist'.init_verify_failed
                  /\ balance' = balance
                  /\ session' = session
                  /\ init_queue' = Tail(init_queue)]_vars

\* a publish request that upgraded N and created M, kept as a success with
\* the init_module of M alone run
InitModuleOnFirstPublishWitness ==
    /\ Succeeded
    /\ txn.payload = "EntryFunction"
    /\ hist.init_calls = <<[module |-> "M", signer |-> "destination"]>>
    /\ output.change_set.mods["M"] = WriteOp("Creation", "publish")
    /\ output.change_set.mods["N"] = WriteOp("Modification", "publish")


\* C30 (Storage refund in the fee statement): the storage_fee_refund of the
\* output is 0 on every output of the failure path and on every discard, 0
\* for a multisig transaction whose inner payload failed, and 0 whenever
\* STORAGE_DELETION_REFUND was disabled; on every other output it is the
\* refund process_storage_fee_for_all returned (txn.storage_refund) when the
\* change set of the main session was charged.
StorageRefundInFeeStatement ==
    Done =>
        LET storage_fee_refund == output.fee_statement.storage_fee_refund IN
        /\ (hist.failure_join \/ Discarded) => storage_fee_refund = 0
        /\ InnerFailed => storage_fee_refund = 0
        /\ ~cfg.storage_deletion_refund => storage_fee_refund = 0
        /\ (Succeeded /\ ~InnerFailed /\ cfg.storage_deletion_refund) =>
              /\ hist.charged
              /\ storage_fee_refund = txn.storage_refund

\* a success whose fee statement carries the refund of the storage fee
StorageRefundInFeeStatementWitness ==
    /\ Succeeded
    /\ cfg.storage_deletion_refund
    /\ txn.storage_refund = MaxRefund
    /\ output.fee_statement.storage_fee_refund = MaxRefund


\* C31: the multisig cleanup is unmetered and comes after the charge: once a
\* multisig cleanup function has been called, the balance of the gas meter
\* is the balance it had when the cleanup was called (the cleanup and its
\* writes charged nothing, and nothing is charged afterwards), no stage
\* called "cleanup" ever ran out of gas, and the successful cleanup was
\* called only after charge_change_set_and_respawn_session had returned Ok
\* for the writes of the inner payload.
MultisigCleanupUnmetered ==
    hist.cleanup_calls # <<>> =>
        /\ hist.balance_before_cleanup = <<balance>>
        /\ hist.oog_at # "cleanup"
        /\ hist.cleanup_calls[1].fn = "successful_transaction_execution_cleanup" =>
              hist.charged
        /\ hist.cleanup_calls[1].fn = "failed_transaction_execution_cleanup" =>
              /\ ~hist.charged
              /\ hist.inner # "none"

\* a run whose inner payload succeeded, was charged for, and whose cleanup
\* wrote to the respawned session without a charge
MultisigCleanupUnmeteredWitness ==
    /\ pc = "success_cleanup"
    /\ hist.cleanup_calls = <<CleanupCall("successful_transaction_execution_cleanup", "none")>>
    /\ hist.cleanup_ok
    /\ hist.charged
    /\ balance < txn.max_gas_amount
    /\ hist.balance_before_cleanup = <<balance>>
    /\ respawned.session # EmptyChangeSet


\* what the original wording of C32 says of the code returned: every
\* ModuleBundle transaction run while the flag is set is discarded with
\* FEATURE_UNDER_GATING
ModuleBundleAlwaysUnderGating ==
    (Done /\ txn.payload = "ModuleBundle" /\ cfg.module_bundle_disallowed) =>
        output = empty_with_status(Discard("FEATURE_UNDER_GATING"))

\* C32 (ModuleBundle gating, amended): a ModuleBundle transaction run while
\* MODULE_BUNDLE_DISALLOWED is set is discarded with an empty output, before
\* its prologue passes, before any gas is charged and without publishing
\* anything; the code is FEATURE_UNDER_GATING unless a check that precedes
\* the gate turned the transaction away (INVALID_SIGNATURE,
\* VM_STARTUP_FAILURE, SIGNERS_CONTAIN_DUPLICATES). execute_modules is never
\* entered with the flag set, and the flag, once cleared, is never set again.
ModuleBundleGating ==
    /\ []((Done /\ txn.payload = "ModuleBundle" /\ cfg.module_bundle_disallowed) =>
            /\ output.status.tag = "Discard"
            /\ output.status.st \in {"FEATURE_UNDER_GATING", "INVALID_SIGNATURE",
                                     "VM_STARTUP_FAILURE", "SIGNERS_CONTAIN_DUPLICATES"}
            /\ output = empty_with_status(output.status)
            /\ ~hist.prologue_passed
            /\ ~hist.publish_called
            /\ hist.intrinsic_charges = 0
            /\ balance = txn.max_gas_amount)
    /\ [](~(pc = "payload" /\ txn.payload = "ModuleBundle" /\ cfg.module_bundle_disallowed))
    /\ [][(cfg'.module_bundle_disallowed) => (cfg.module_bundle_disallowed)]_vars

\* a ModuleBundle transaction stopped by the gate of the prologue
ModuleBundleGatingWitness ==
    /\ Done
    /\ txn.payload = "ModuleBundle"
    /\ cfg.module_bundle_disallowed
    /\ output = empty_with_status(Discard("FEATURE_UNDER_GATING"))

(* ---------------------- properties of the overlay view ------------------ *)
\* C11 (as claimed): every read answered by ExecutorViewWithChangeSet is a
\* function of the change set, the base view and the call's arguments: two
\* calls with the same arguments on the same view return the same result.
\* get_resource_from_group breaks it when the supplied layout and the layout
\* kept with the write are both Some and differ: the call fails exactly when
\* the thread-local random draw is 1.
ReadsDeterministic ==
    \A p \in seen, q \in seen : p[1] = q[1] => p[2] = q[2]

\* the reads seen of one method
SeenOf(method) == {p \in seen : p[1][1] = method}

\* C16 (Overlay resource and module reads): a key in the resource (module)
\* write set is answered with the state value of its write op, None for a
\* Deletion, without a call on the base view; any other key is answered with
\* exactly what the base view returns for the same arguments.
OverlayResourceModuleReads ==
    /\ \A p \in SeenOf("get_resource_state_value") :
        LET state_key == p[1][2]
            write_set == view.change_set.resource_write_set
        IN
        IF state_key \in DOMAIN write_set
        THEN /\ p[2].ok
             /\ p[2].asked = <<>>
             /\ p[2].value = IF write_set[state_key].op.kind = "Deletion" THEN <<>>
                              ELSE <<write_set[state_key].op.bytes>>
        ELSE /\ p[2].asked = p[1]
             /\ p[2].ok = view.base.resource[state_key].ok
             /\ p[2].value = view.base.resource[state_key].value
    /\ \A p \in SeenOf("get_module_state_value") :
        LET state_key == p[1][2]
            write_set == view.change_set.module_write_set
        IN
        IF state_key \in DOMAIN write_set
        THEN /\ p[2].ok
             /\ p[2].asked = <<>>
             /\ p[2].value = IF write_set[state_key].kind = "Deletion" THEN <<>>
                              ELSE <<write_set[state_key].bytes>>
        ELSE /\ p[2].asked = p[1]
             /\ p[2].ok = view.base.module[state_key].ok
             /\ p[2].value = view.base.module[state_key].value

\* a resource deleted in the write set and present in the base was read as None
OverlayResourceModuleReadsWitness ==
    /\ view.kind = "resource"
    /\ "k" \in DOMAIN view.change_set.resource_write_set
    /\ view.change_set.resource_write_set["k"].op.kind = "Deletion"
    /\ view.base.resource["k"].value = <<30>>
    /\ \E p \in seen : p[2] = ReadOk(<<>>, <<>>)

\* the group write of the view holds an inner op for the tag
InGroupWrite(group_key, resource_tag) ==
    /\ group_key \in DOMAIN view.change_set.resource_group_write_set
    /\ resource_tag \in DOMAIN view.change_set.resource_group_write_set[group_key].inner_ops

\* C17 as stated: a read of a tag held by the group write returns the bytes
\* of the inner op, whatever layout is supplied.
GroupReadAlwaysInnerBytes ==
    \A p \in SeenOf("get_resource_from_group") :
        InGroupWrite(p[1][2], p[1][3]) =>
            LET inner == view.change_set.resource_group_write_set[p[1][2]].inner_ops[p[1][3]] IN
            /\ p[2].ok
            /\ p[2].value = IF inner.op.kind = "Deletion" THEN <<>> ELSE <<inner.op.bytes>>

\* C17, amended: a read of a tag held by the group write never calls the base
\* view; it returns the bytes of the inner op when the supplied layout and
\* the layout kept with the op are both None or are equal, fails when exactly
\* one of them is None, and returns the bytes or fails (on the random draw)
\* when both are Some and differ.  A read of any other tag, in a group
\* without a write or in a written group whatever its metadata op, is
\* answered with exactly what the base group view returns for the same
\* (key, tag, layout).
OverlayGroupReads ==
    \A p \in SeenOf("get_resource_from_group") :
        LET group_key == p[1][2]
            resource_tag == p[1][3]
            maybe_layout == p[1][4]
        IN
        IF InGroupWrite(group_key, resource_tag)
        THEN LET inner == view.change_set.resource_group_write_set[group_key]
                              .inner_ops[resource_tag]
                 bytes == IF inner.op.kind = "Deletion" THEN <<>> ELSE <<inner.op.bytes>>
             IN
             /\ p[2].asked = <<>>
             /\ p[2].ok => p[2].value = bytes
             /\ maybe_layout = inner.layout => p[2].ok
             /\ (maybe_layout = <<>>) # (inner.layout = <<>>) => ~p[2].ok
        ELSE /\ p[2].asked = p[1]
             /\ p[2].ok = view.base.group[group_key][resource_tag].ok
             /\ p[2].value = view.base.group[group_key][resource_tag].value

\* in a group whose metadata op is a Deletion, the tag with an inner op was
\* read from the write and the other tag from the base, with a layout
OverlayGroupReadsWitness ==
    /\ view.kind = "group"
    /\ InGroupWrite("k", "t0")
    /\ ~InGroupWrite("k", "t1")
    /\ view.change_set.resource_group_write_set["k"].metadata_op.kind = "Deletion"
    /\ view.change_set.resource_group_write_set["k"].inner_ops["t0"].layout = <<"L1">>
    /\ <<<<"get_resource_from_group", "k", "t0", <<"L1">>>>, ReadOk(<<1000>>, <<>>)>> \in seen
    /\ <<<<"get_resource_from_group", "k", "t1", <<"L1">>>>,
          ReadOk(<<100>>, <<"get_resource_from_group", "k", "t1", <<"L1">>>>)>> \in seen

\* C18 (Overlay aggregator-v1 reads): an id in the delta set is answered with
\* the base value with the delta applied (an error when the base has no value
\* or the limit is exceeded), whether or not the write set holds it too; an
\* id in the write set only with the state value of its write op; any other
\* id with what the base view returns.
OverlayAggregatorReads ==
    \A p \in SeenOf("get_aggregator_v1_state_value") :
        LET id == p[1][2]
            held == view.base.aggregator[id]
            delta_set == view.change_set.aggregator_v1_delta_set
            write_set == view.change_set.aggregator_v1_write_set
        IN
        IF id \in DOMAIN delta_set
        THEN IF held.ok /\ held.value # <<>>
                /\ held.value[1] + delta_set[id].add <= delta_set[id].limit
             THEN p[2].ok /\ p[2].value = <<held.value[1] + delta_set[id].add>>
             ELSE ~p[2].ok
        ELSE IF id \in DOMAIN write_set
        THEN /\ p[2].ok
             /\ p[2].asked = <<>>
             /\ p[2].value = IF write_set[id].kind = "Deletion" THEN <<>>
                              ELSE <<write_set[id].bytes>>
        ELSE /\ p[2].asked = p[1]
             /\ p[2].ok = held.ok
             /\ p[2].value = held.value

\* an aggregator in both the delta set and the write set was read as the base
\* value plus the delta
OverlayAggregatorReadsWitness ==
    /\ view.kind = "aggregator"
    /\ "k" \in DOMAIN view.change_set.aggregator_v1_delta_set
    /\ "k" \in DOMAIN view.change_set.aggregator_v1_write_set
    /\ view.base.aggregator["k"].value = <<70>>
    /\ \E p \in seen : p[2].ok /\ p[2].value = <<71>>

(* ------------------------ properties of execute_block ------------------- *)
\* the outputs execute_single_transaction can return for a transaction
OutputsOf(t) ==
    CASE t = "Invalid" -> {[status |-> Discard("INVALID_SIGNATURE"), write_set |-> {},
                            events |-> <<>>]}
      [] t = "StateCheckpoint" -> {[status |-> Keep("Success"), write_set |-> {},
                                    events |-> <<>>]}
      [] t = "ValidatorTransaction" -> {[status |-> Keep("Success"), write_set |-> {},
                                         events |-> <<>>]}
      [] t = "GenesisTransaction" ->
            {process_waypoint_change_set(w).output :
                w \in {x \in WriteSetPayloads : process_waypoint_change_set(x).ok}}
      [] t = "UserTransaction" -> UserOutputs
      [] OTHER -> {r.output : r \in {x \in BlockPrologueOutcomes : x.ok}}

RestartOnNewEpoch ==
    \A i \in DOMAIN restarts :
        /\ restarts[i] <=> <<new_epoch_event_key>> \in Range(outputs[i].events)
        /\ (/\ outputs[i].status = Keep("Success")
            /\ <<new_epoch_event_key>> \in Range(outputs[i].events)) => restarts[i]

\* a kept output whose second event is the new-epoch event asked for a restart
RestartOnNewEpochWitness ==
    \E i \in DOMAIN restarts :
        /\ restarts[i]
        /\ outputs[i].status = Keep("Success")
        /\ Len(outputs[i].events) = 2
        /\ outputs[i].events[1] # <<new_epoch_event_key>>


\* C35 (Non-user transactions): for a transaction whose signature is invalid
\* execute_single_transaction calls nothing (no session, no prologue) and
\* returns Discard(INVALID_SIGNATURE) with an empty output, whatever
\* execute_user_transaction would have made of it; for StateCheckpoint and
\* ValidatorTransaction it returns Keep(Success) with no write, no event and
\* a zero fee statement, VMStatus Executed.
NonUserTransactions ==
    /\ \A i \in DOMAIN outputs :
        /\ (i <= Len(calls) /\ transactions[i] = "Invalid") =>
              /\ calls[i].callee = "none"
              /\ outputs[i] = [status |-> Discard("INVALID_SIGNATURE"), write_set |-> {},
                               events |-> <<>>]
        /\ (i <= Len(calls) /\ transactions[i] = "StateCheckpoint") =>
              /\ calls[i].callee = "none"
              /\ outputs[i] = [status |-> Keep("Success"), write_set |-> {}, events |-> <<>>]
        /\ (i <= Len(calls) /\ transactions[i] = "ValidatorTransaction") =>
              /\ calls[i].callee = "process_validator_transaction"
              /\ calls[i].status = "Executed"
              /\ calls[i].fee_statement = <<ZeroFeeStatement>>
              /\ outputs[i] = [status |-> Keep("Success"), write_set |-> {}, events |-> <<>>]
    /\ discard_error_vm_status("INVALID_SIGNATURE").output =
          empty_with_status(Discard("INVALID_SIGNATURE"))
    /\ empty_with_status(Keep("Success")).fee_statement.gas_used = 0
    /\ empty_with_status(Keep("Success")).change_set = EmptyChangeSet

\* a block of an invalid transaction, a state checkpoint and a validator
\* transaction, returned
NonUserTransactionsWitness ==
    /\ ret = "Ok"
    /\ transactions = <<"Invalid", "ValidatorTransaction", "StateCheckpoint">>
    /\ Len(outputs) = 3
    /\ Len(calls) = 3

\* the events of a change set include the new block and the new epoch event
HasBothEvents(events) ==
    /\ <<new_block_event_key>> \in Range(events)
    /\ <<new_epoch_event_key>> \in Range(events)

\* C36 (Waypoint/genesis write sets): process_waypoint_change_set returns Ok
\* only for a change set whose events include both a new block event and a
\* new epoch event, and then with VMStatus Executed and the output
\* Keep(Success), a zero fee statement and the events of the change set as
\* they were; a change set execute_write_set made without both events fails
\* with INVALID_WRITE_SET, before its keys are read, and no output is
\* produced: the block ends with an error.
WaypointWriteSets ==
    \A i \in DOMAIN calls :
        calls[i].callee = "process_waypoint_change_set" =>
            LET w == calls[i].write_set_payload
                accepted == calls[i].status = "Executed"
            IN  /\ accepted => HasBothEvents(w.events)
                /\ accepted =>
                      /\ i <= Len(outputs)
                      /\ outputs[i].status = Keep("Success")
                      /\ outputs[i].events = w.events
                      /\ calls[i].fee_statement = <<ZeroFeeStatement>>
                /\ (w.execute_write_set = "Executed" /\ ~HasBothEvents(w.events)) =>
                      calls[i].status = "INVALID_WRITE_SET"
                /\ ~accepted =>
                      /\ outputs = <<>>
                      /\ ret = "Err"
                      /\ calls[i].status \in {"INVALID_WRITE_SET", "STORAGE_ERROR",
                                              w.execute_write_set}

\* a genesis write set that emits the new epoch event twice and no new block
\* event, and whose keys cannot be read, turned away with INVALID_WRITE_SET
WaypointWriteSetsWitness ==
    /\ ret = "Err"
    /\ Len(calls) = 1
    /\ calls[1].callee = "process_waypoint_change_set"
    /\ calls[1].write_set_payload =
          [execute_write_set |-> "Executed",
           events |-> <<<<new_epoch_event_key>>, <<new_epoch_event_key>>>>,
           read_change_set |-> "STORAGE_ERROR"]
    /\ calls[1].status = "INVALID_WRITE_SET"

(* --------------------- properties of validate_transaction --------------- *)
\* C14 (validate_transaction): the transaction is accepted (status None,
\* score = its gas_unit_price) exactly when the authenticator gating and the
\* signature check pass and validate_signed_transaction returns Ok or
\* SEQUENCE_NUMBER_TOO_NEW; any other error of validate_signed_transaction is
\* returned as the status with score 0, and when the gating or the signature
\* check fails the prologue is not run.  Nothing but the prologue is run.
ValidationVerdict ==
    validator_result.done =>
        LET gated == /\ ~request.single_sender_authenticator
                     /\ request.authenticator = "SingleSender"
            checks_pass == ~gated /\ request.signature_ok
            accepted == validator_result.status = <<>>
        IN
        /\ accepted <=> (/\ checks_pass
                         /\ validator_result.signed \in
                                {"Executed", "SEQUENCE_NUMBER_TOO_NEW"})
        /\ accepted => validator_result.score = request.gas_unit_price
        /\ (checks_pass /\ ~accepted) =>
                /\ validator_result.status = <<validator_result.signed>>
                /\ validator_result.score = 0
        /\ gated => validator_result.status = <<"FEATURE_UNDER_GATING">>
        /\ (~gated /\ ~request.signature_ok) =>
                validator_result.status = <<"INVALID_SIGNATURE">>
        /\ ~checks_pass <=> validator_result.signed = "not run"
        /\ (checks_pass /\ request.duplicate_signers) =>
                validator_result.signed = "SIGNERS_CONTAIN_DUPLICATES"

\* a transaction whose sequence number is too new, accepted at its gas price
ValidationVerdictWitness ==
    /\ validator_result.done
    /\ validator_result.signed = "SEQUENCE_NUMBER_TOO_NEW"
    /\ validator_result.status = <<>>
    /\ validator_result.score = MaxGasPrice


\* C25 (Authenticator gating in the execution pipeline): a transaction whose
\* authenticator is SingleSender while SINGLE_SENDER_AUTHENTICATOR is disabled
\* is discarded by stage 1 of the execution pipeline with
\* FEATURE_UNDER_GATING, before its prologue runs, as validate_transaction
\* rejects it with FEATURE_UNDER_GATING before checking the signature.
PipelineAuthenticatorGating ==
    LET gated == /\ ~request.single_sender_authenticator
                 /\ request.authenticator = "SingleSender"
    IN
    /\ (validator_result.done /\ gated) =>
            /\ validator_result.status = <<"FEATURE_UNDER_GATING">>
            /\ validator_result.signed = "not run"
    /\ (stage_1.done /\ gated) =>
            /\ stage_1.status = <<"FEATURE_UNDER_GATING">>
            /\ stage_1.signed = "not run"

(* ------------------ properties of the write-once configuration ---------- *)
\* the documented defaults of the getters
DocumentedDefault(knob) ==
    CASE knob = "EXECUTION_CONCURRENCY_LEVEL" -> <<1>>
      [] knob = "NUM_EXECUTION_SHARD" -> <<1>>
      [] knob = "NUM_PROOF_READING_THREADS" -> <<32>>
      [] knob = "PARANOID_TYPE_CHECKS" -> <<TRUE>>
      [] knob = "PROCESSED_TRANSACTIONS_DETAILED_COUNTERS" -> <<FALSE>>
      [] OTHER -> <<<<>>>>

\* C15 (Write-once configuration): under every interleaving of the setters
\* of the threads, the set that finds a knob's cell empty stores its value
\* and every other set leaves the cell as it is, so a cell that holds a value
\* holds it forever; a getter returns the documented default (1, 1, 32, true,
\* false, None) while the cell is empty and the stored value afterwards.
WriteOnceConfiguration ==
    [][/\ \A k \in Knobs : cells[k] # <<>> => cells'[k] = cells[k]
       /\ \A t \in Threads :
            (threads[t].pc = "set" /\ threads'[t].pc = "idle") =>
                /\ cells[threads[t].knob] = <<>> =>
                      cells'[threads[t].knob] = threads[t].value
                /\ \A k \in Knobs \ {threads[t].knob} : cells'[k] = cells[k]
       /\ got' # got =>
            got'.value = IF cells[got'.knob] = <<>> THEN DocumentedDefault(got'.knob)
                         ELSE IF got'.knob = "TIMED_FEATURE_OVERRIDE" THEN <<cells[got'.knob]>>
                         ELSE cells[got'.knob]]_vars

\* two threads were in set_num_proof_reading_threads_once with different
\* values; the first set took effect, the second was dropped, and the getter
\* returns the first value
WriteOnceConfigurationWitness ==
    /\ cells["NUM_PROOF_READING_THREADS"] = <<256>>
    /\ threads["t1"].pc = "idle"
    /\ threads["t2"] = [pc |-> "set", knob |-> "NUM_PROOF_READING_THREADS", value |-> <<8>>]
    /\ got = [knob |-> "NUM_PROOF_READING_THREADS", value |-> <<256>>, tick |-> 1]


\* the validator transactions of the block, as transactions
ValidatorTxnsOf(b) ==
    [i \in 1..Len(b.validator_txns) |->
        ConsensusTxn("ValidatorTransaction", b.validator_txns[i])]

FirstThenValidatorTxns(l) ==
    /\ Len(l) >= 1 + Len(consensus_block.validator_txns)
    /\ l[1].kind = "BlockMetadata"
    /\ SubSeq(l, 2, 1 + Len(consensus_block.validator_txns)) = ValidatorTxnsOf(consensus_block)

NamesMatch(r) ==
    /\ \A i \in DOMAIN r.modules : r.modules[i].name \in r.expected_modules
    /\ \A i, j \in DOMAIN r.modules : r.modules[i].name = r.modules[j].name => i = j
    /\ \A n \in r.expected_modules : \E i \in DOMAIN r.modules : r.modules[i].name = n

\* every immediate dependency is covered by the wildcard or by its own name
\* in the entry of its address
DependenciesCovered(r) ==
    r.allowed_deps # <<>> =>
        \A i \in DOMAIN r.modules : \A dep \in r.modules[i].deps :
            /\ dep.address \in DOMAIN r.allowed_deps[1]
            /\ \/ "" \in r.allowed_deps[1][dep.address]
               \/ dep.name \in r.allowed_deps[1][dep.address]

Applied(change, read) ==
    IF read.ok THEN apply_to_base(change, read.value, read.asked) ELSE read

\* C33 (Overlay delayed-field value): a call get_delayed_field_value(id) that
\* returned gave Ok(v), asking the base nothing, when the change set has
\* Create(v) for id; what the base view returns for id when the change set
\* has no entry; for Apply(a) with ApplyBase::Previous(b), a applied to what
\* the base view returns for b (its error when it has none); for Apply(a)
\* with ApplyBase::Current(b) and b # id, a applied to what
\* get_delayed_field_value(b) on the overlay itself returns, the change to b
\* of the change set included; and a code-invariant error, with no read at
\* all, for ApplyBase::Current(id).
OverlayDelayedFieldValue ==
    \A p \in ResolvedOf("get_delayed_field_value") :
        LET id == p[1].id
            r == p[2]
            change == delayed_view.change_set[id]
            apply_base == get_apply_base_id(change, id)
        IN  CASE change.kind = "Create" -> r = DelayedOk(change.value, NoAsk)
              [] change.kind = "None" ->
                    r = base_get_delayed_field_value(delayed_view.base, id)
              [] OTHER ->
                    /\ apply_base.kind = "Previous" =>
                          r = Applied(change, base_get_delayed_field_value(
                                                  delayed_view.base, apply_base.id))
                    /\ (apply_base.kind = "Current" /\ apply_base.id = id) =>
                          r = DelayedErr("code_invariant_error", NoAsk)
                    /\ (apply_base.kind = "Current" /\ apply_base.id # id) =>
                          /\ \A q \in ResolvedOf("get_delayed_field_value") :
                                q[1].id = apply_base.id => r = Applied(change, q[2])
                          /\ delayed_view.change_set[apply_base.id].kind = "Create" =>
                                r = Applied(change,
                                            DelayedOk(delayed_view.change_set[apply_base.id].value,
                                                      NoAsk))

\* a derived value of "a" made from the snapshot the change set itself makes
\* of "b" (a snapshot of the aggregator of the base plus one), where the base
\* view holds another snapshot for "b"
OverlayDelayedFieldValueWitness ==
    /\ delayed_view.change_set["a"] = DelayedChange("SnapshotDerived", NoValue, 0, "b")
    /\ delayed_view.change_set["b"] = DelayedChange("SnapshotDelta", NoValue, 1, "a")
    /\ delayed_view.base["a"].value = DelayedValue("Aggregator", 1)
    /\ delayed_view.base["b"].value = DelayedValue("Snapshot", 1)
    /\ <<DelayedCall("get_delayed_field_value", "a", 0, 0, 0),
         DelayedOk(DelayedValue("Derived", MaxValue),
                   DelayedCall("get_delayed_field_value", "a", 0, 0, 0))>> \in resolved
    /\ <<DelayedCall("get_delayed_field_value", "b", 0, 0, 0),
         DelayedOk(DelayedValue("Snapshot", MaxValue),
                   DelayedCall("get_delayed_field_value", "a", 0, 0, 0))>> \in resolved

\* n is a value of an aggregator bounded by max_value
InBounds(n, max_value) == 0 <= n /\ n <= max_value

\* C34 (Overlay try-add-delta outcome): a call
\* delayed_field_try_add_delta_outcome(id, base_delta, delta, max_value)
\* returned, with Create(v) in the change set, an error when v is no
\* aggregator value or v + base_delta is out of [0, max_value], and otherwise
\* whether (v + base_delta) + delta is within [0, max_value], without asking
\* the base view; with Apply(AggregatorDelta d), what the base view returns
\* for (id, base_delta merged with d, delta, max_value), or an error when the
\* merged delta is beyond max_value; with any other Apply a code-invariant
\* error; with no entry, what the base view returns for the unchanged
\* arguments.
OverlayTryAddDeltaOutcome ==
    \A p \in ResolvedOf("delayed_field_try_add_delta_outcome") :
        LET c == p[1]
            r == p[2]
            change == delayed_view.change_set[c.id]
            v == change.value.v
            merged == c.base_delta + change.delta
        IN  CASE change.kind = "Create" ->
                    IF change.value.kind = "Aggregator" /\ InBounds(v + c.base_delta, c.max_value)
                    THEN r = DelayedOk(Outcome(InBounds((v + c.base_delta) + c.delta,
                                                        c.max_value)), NoAsk)
                    ELSE r = DelayedErr("code_invariant_error", NoAsk)
              [] change.kind = "AggregatorDelta" ->
                    IF -c.max_value <= merged /\ merged <= c.max_value
                    THEN /\ r = base_delayed_field_try_add_delta_outcome(
                                    delayed_view.base, c.id, merged, c.delta, c.max_value)
                         /\ r.asked = DelayedCall("delayed_field_try_add_delta_outcome",
                                                  c.id, merged, c.delta, c.max_value)
                    ELSE r = DelayedErr("code_invariant_error", NoAsk)
              [] change.kind \in {"SnapshotDelta", "SnapshotDerived"} ->
                    r = DelayedErr("code_invariant_error", NoAsk)
              [] OTHER ->
                    /\ r = base_delayed_field_try_add_delta_outcome(
                               delayed_view.base, c.id, c.base_delta, c.delta, c.max_value)
                    /\ r.asked = c

\* an aggregator the base view holds at 1 and the change set raised by 1: one
\* more does not fit under MaxValue, as it would without the change
OverlayTryAddDeltaOutcomeWitness ==
    /\ delayed_view.change_set["a"] = DelayedChange("AggregatorDelta", NoValue, 1, "none")
    /\ delayed_view.base["a"].value = DelayedValue("Aggregator", 1)
    /\ resolved = {<<DelayedCall("delayed_field_try_add_delta_outcome", "a", 0, 1, MaxValue),
                     DelayedOk(Outcome(FALSE),
                               DelayedCall("delayed_field_try_add_delta_outcome", "a", 1, 1,
                                           MaxValue))>>}

\* C40 (Overlay delayed-field resolution terminates): a call of
\* get_delayed_field_value never has more frames than the change set has ids
\* (a frame more resolves an id a second time, from the same view, and so
\* for ever) and never overflows the stack: it returns a value or an error.
DelayedFieldResolutionTerminates ==
    /\ Len(resolving.stack) <= Cardinality(DelayedFieldIDs)
    /\ resolving.state # "stack overflow"

(* ------------------------ properties of request_batch ------------------- *)
\* the peer was sent a batch RPC in some round
Requested(peer) ==
    \E k \in 1..Len(issued) : \E i \in 1..Len(issued[k].peers) : issued[k].peers[i] = peer

\* the number of batch RPCs issued so far
RECURSIVE Rpcs(_)
Rpcs(rounds) == IF rounds = <<>> THEN 0 ELSE Len(rounds[1].peers) + Rpcs(Tail(rounds))

RetriesExhausted == request_state.num_retries = request_state.retry_limit

\* C37: a run of request_batch sends exactly one value on ret_tx, and only as it returns:
\* nothing is sent while the loop runs; Some((batch_info, payload)) is returned with
\* Ok(payload) sent, both of the batch one requested peer answered with; None is returned
\* with Err(CouldNotGetData) sent, the retries exhausted and no RPC in flight.
BatchRequestDeliversOnce ==
    /\ Len(ret_tx) <= 1
    /\ request_batch_ret.state = "running" => ret_tx = <<>>
    /\ request_batch_ret.state = "returned" =>
        /\ Len(ret_tx) = 1
        /\ request_batch_ret.value # None =>
            /\ ret_tx[1] = [ok |-> TRUE, payload |-> request_batch_ret.value[1].payload]
            /\ \E i \in 1..Len(Peers) :
                /\ Requested(Peers[i])
                /\ request_batch_ret.value[1].batch_info = Batch(Peers[i]).batch_info
                /\ request_batch_ret.value[1].payload = Batch(Peers[i]).transactions
        /\ request_batch_ret.value = None =>
            /\ ret_tx[1] = CouldNotGetData
            /\ RetriesExhausted
            /\ futures = <<>>

\* request_batch returned None after every RPC of every round had failed
BatchRequestDeliversOnceWitness ==
    /\ request_batch_ret = Returned(None)
    /\ ret_tx = <<CouldNotGetData>>
    /\ Len(issued) = 2
    /\ Rpcs(issued) = 4

RequestBatchTerminates ==
    /\ <>(request_batch_ret.state = "returned")
    /\ [](request_batch_ret.state # "panicked")
    /\ [][(request_batch_ret.state = "running" /\ request_batch_ret'.state = "returned")
            => (ret_tx'[1].ok \/ (RetriesExhausted /\ futures = <<>>))]_vars

\* what the code does guarantee: a run on a signer list that is not empty returns
RequestBatchReturnsWithSigners ==
    (request_state.signers # <<>>) => <>(request_batch_ret.state = "returned")

====
